---- MODULE Spec2Model ----
(***************************************************************************)
(* Balance-projection engine of the cashflow tracker (lib/calculations.ts  *)
(* in its plan + entry revision, the anonymous-mode projection of          *)
(* pages/anonymous-app.tsx) and the local store of lib/local-storage.ts    *)
(* with the handlers of AnonymousApp that call it.                         *)
(*                                                                         *)
(* A month key "YYYY-MM" is the tuple of its six digits (the hyphen has a  *)
(* fixed position and takes no part in any comparison between well-formed  *)
(* keys).  Amounts are integers (minor units).  A JavaScript `undefined`   *)
(* object is the record Undefined; an absent end_month is the empty        *)
(* string <<>>.                                                            *)
(***************************************************************************)
EXTENDS Integers, Sequences, FiniteSets, TLC

VARIABLES now, startMonth, count, monthIds, plans, entries, startingBalance,
          result, prev, calls, query,
          cashflow, nextId, selectedPlanId, op,
          localStorage, cachedRawJson, cachedCashflow, auth

\* The local store: the stored cashflow, the ids handed out so far, the plan
\* the item modal of a tab is open on, and the last store operation with the id
\* it was called with (the plan_id for addLocalEntry, the new id for
\* addLocalPlan) and the number of entries it found stored.
storeVars == <<cashflow, nextId, selectedPlanId, op>>

\* The browser session under the store: the two keys of localStorage, the two
\* module variables of local-storage.ts that cache the cashflow key, and the
\* state of the mounted AuthenticatedApp.
sessionVars == <<localStorage, cachedRawJson, cachedCashflow, auth>>

vars == <<now, startMonth, count, monthIds, plans, entries, startingBalance,
          result, prev, calls, query, storeVars, sessionVars>>

(***************************************************************************)
(* Bounds of the model.                                                    *)
(***************************************************************************)
MaxPlans == 2
MaxEntries == 2
MaxCount == 2
MaxCalls == 2
MaxRange == 4
MaxSummaries == 3
MaxIds == 4

Undefined == [undefined |-> TRUE]
NoMonth == <<>>

CategoryTypes == {"income", "expense"}
Frequencies == {"one-time", "weekly", "biweekly", "monthly"}
Statuses == {"active", "completed"}

(***************************************************************************)
(* Month identifier utilities.                                             *)
(***************************************************************************)
Year(s) == s[1] * 1000 + s[2] * 100 + s[3] * 10 + s[4]
Month(s) == s[5] * 10 + s[6]

\* JavaScript string comparison a < b (code units, left to right).
RECURSIVE StrLess(_, _)
StrLess(a, b) ==
  IF b = <<>> THEN FALSE
  ELSE IF a = <<>> THEN TRUE
  ELSE IF Head(a) # Head(b) THEN Head(a) < Head(b)
  ELSE StrLess(Tail(a), Tail(b))

\* date-fns parse(str, "yyyy-MM", referenceDate): the year setter resets
\* month and day, the month setter resets the day.
parse(s, ref) ==
  LET d1 == [ref EXCEPT !.year = Year(s), !.month = 0, !.day = 1]
  IN  [d1 EXCEPT !.month = Month(s) - 1, !.day = 1]

IsLeap(y) == (y % 4 = 0 /\ y % 100 # 0) \/ y % 400 = 0
DaysInMonth(y, m) ==
  IF m = 1 THEN (IF IsLeap(y) THEN 29 ELSE 28)
  ELSE IF m \in {3, 5, 8, 10} THEN 30 ELSE 31

\* Variant: the year is not carried.
addMonthsSameYear(d, n) ==
  [year |-> d.year, month |-> (d.month + n) % 12, day |-> d.day]

\* date-fns addMonths(date, amount), month 0-based as in a JavaScript Date.
addMonths(d, n) ==
  LET total == d.month + n
      y == d.year + (total \div 12)
      m == total % 12
      dim == DaysInMonth(y, m)
  IN  [year |-> y, month |-> m, day |-> IF d.day >= dim THEN dim ELSE d.day]

generateMonthId(d) ==
  LET y == d.year
      m == d.month + 1
  IN  <<y \div 1000, (y \div 100) % 10, (y \div 10) % 10, y % 10, m \div 10, m % 10>>

MonthAbbrev ==
  <<"Jan", "Feb", "Mar", "Apr", "May", "Jun", "Jul", "Aug", "Sep", "Oct", "Nov", "Dec">>

\* Variant: the reference date is formatted instead of the parsed one.
formatReferenceName(monthId, clock) ==
  [mon |-> MonthAbbrev[clock.month + 1], year |-> clock.year]

formatMonthName(monthId, clock) ==
  LET date == parse(monthId, clock)
  IN  [mon |-> MonthAbbrev[date.month + 1], year |-> date.year]

generateMonthRange(start, n, clock) ==
  LET s == parse(start, clock)
  IN  [i \in 1..n |-> generateMonthId(addMonths(s, i - 1))]

(***************************************************************************)
(* Plan activation resolver.                                               *)
(***************************************************************************)
\* Variant: the one-time test is missing.
isPlanActiveInRange(plan, monthId) ==
  IF plan.status = "completed" THEN FALSE
  ELSE IF StrLess(monthId, plan.start_month) THEN FALSE
  ELSE IF plan.end_month # NoMonth /\ StrLess(plan.end_month, monthId) THEN FALSE
  ELSE TRUE

\* Variant: the status is not looked at.
isPlanActiveWhenCompleted(plan, monthId) ==
  IF StrLess(monthId, plan.start_month) THEN FALSE
  ELSE IF plan.end_month # NoMonth /\ StrLess(plan.end_month, monthId) THEN FALSE
  ELSE IF plan.frequency = "one-time" /\ monthId # plan.start_month THEN FALSE
  ELSE TRUE

\* Variant: the end month itself is no longer active.
isPlanActiveEndExclusive(plan, monthId) ==
  IF plan.status = "completed" THEN FALSE
  ELSE IF StrLess(monthId, plan.start_month) THEN FALSE
  ELSE IF plan.end_month # NoMonth /\ ~StrLess(monthId, plan.end_month) THEN FALSE
  ELSE IF plan.frequency = "one-time" /\ monthId # plan.start_month THEN FALSE
  ELSE TRUE

isPlanActiveInMonth(plan, monthId) ==
  IF plan.status = "completed" THEN FALSE
  ELSE IF StrLess(monthId, plan.start_month) THEN FALSE
  ELSE IF plan.end_month # NoMonth /\ StrLess(plan.end_month, monthId) THEN FALSE
  ELSE IF plan.frequency = "one-time" /\ monthId # plan.start_month THEN FALSE
  ELSE TRUE

(***************************************************************************)
(* Month item builder.                                                     *)
(***************************************************************************)
\* A MonthItem literal.  ref is the identity of the object: NoRef until the
\* builder of calculateBalances has placed the object in its array.
NoRef == <<>>

EntryItem(e, m) ==
  [type |-> "entry", entry |-> e, plan |-> e.plan, month_year |-> m,
   wouldCauseDebt |-> FALSE, ref |-> NoRef]

ExpectedItem(p, m) ==
  [type |-> "expected", entry |-> Undefined, plan |-> p, month_year |-> m,
   wouldCauseDebt |-> FALSE, ref |-> NoRef]

\* Reading .category.type of an item dereferences undefined (a TypeError).
CategoryThrows(item) ==
  IF item.type = "entry"
  THEN item.entry.plan = Undefined \/ item.entry.plan.category = Undefined
  ELSE item.plan.category = Undefined

itemCategory(item) ==
  IF item.type = "entry" THEN item.entry.plan.category ELSE item.plan.category

itemAmount(item) ==
  IF item.type = "entry" THEN item.entry.amount ELSE item.plan.expected_amount

\* entriesByPlanAndMonth.get(`${plan.id}-${monthId}`) || []
entriesByPlanAndMonth(es, planId, monthId) ==
  SelectSeq(es, LAMBDA e : e.plan_id = planId /\ e.month_year = monthId)

\* Variant: the counts of weekly and biweekly are swapped.
expectedCountSwapped(plan) ==
  IF plan.frequency = "biweekly" THEN 4
  ELSE IF plan.frequency = "weekly" THEN 2 ELSE 1

expectedCount(plan) ==
  IF plan.frequency = "biweekly" THEN 2
  ELSE IF plan.frequency = "weekly" THEN 4 ELSE 1

\* Variant: the recorded entries are not subtracted from the expected count.
planItemsUndeduplicated(plan, es, monthId) ==
  LET planEntries == entriesByPlanAndMonth(es, plan.id, monthId)
  IN  [i \in 1..Len(planEntries) |-> EntryItem(planEntries[i], monthId)]
      \o (IF isPlanActiveInMonth(plan, monthId)
          THEN [i \in 1..expectedCount(plan) |-> ExpectedItem(plan, monthId)]
          ELSE <<>>)

\* One iteration of `for (const plan of plans)`.
planItems(plan, es, monthId) ==
  LET planEntries == entriesByPlanAndMonth(es, plan.id, monthId)
      remainingExpected == expectedCount(plan) - Len(planEntries)
  IN  [i \in 1..Len(planEntries) |-> EntryItem(planEntries[i], monthId)]
      \o (IF isPlanActiveInMonth(plan, monthId)
          THEN [i \in 1..remainingExpected |-> ExpectedItem(plan, monthId)]
          ELSE <<>>)

RECURSIVE plansItems(_, _, _)
plansItems(ps, es, monthId) ==
  IF ps = <<>> THEN <<>>
  ELSE planItems(Head(ps), es, monthId) \o plansItems(Tail(ps), es, monthId)

\* Variant: the entries that no listed plan claimed are skipped.
addNoMonthEntries(items, monthEntries, monthId) == items

\* Variant: the entries of the month are appended without the alreadyAdded test.
addMonthEntriesAgain(items, monthEntries, monthId) ==
  items \o [i \in 1..Len(monthEntries) |-> EntryItem(monthEntries[i], monthId)]

\* The loop over monthEntries: an entry not yet in items is appended.
RECURSIVE addMonthEntries(_, _, _)
addMonthEntries(items, monthEntries, monthId) ==
  IF monthEntries = <<>> THEN items
  ELSE LET entry == Head(monthEntries)
           alreadyAdded == \E i \in 1..Len(items) :
                              items[i].type = "entry" /\ items[i].entry.id = entry.id
       IN  addMonthEntries(IF alreadyAdded THEN items
                           ELSE Append(items, EntryItem(entry, monthId)),
                           Tail(monthEntries), monthId)

\* The comparator of items.sort.
compareItems(a, b) ==
  LET catA == itemCategory(a)
      catB == itemCategory(b)
  IN  IF catA.type = "income" /\ catB.type = "expense" THEN -1
      ELSE IF catA.type = "expense" /\ catB.type = "income" THEN 1
      ELSE 0

\* Array.prototype.sort is stable: insertion behind every element that does
\* not compare greater.
RECURSIVE insertSorted(_, _)
insertSorted(sorted, x) ==
  IF sorted = <<>> THEN <<x>>
  ELSE LET last == sorted[Len(sorted)]
       IN  IF compareItems(last, x) > 0
           THEN Append(insertSorted(SubSeq(sorted, 1, Len(sorted) - 1), x), last)
           ELSE Append(sorted, x)

\* Variant: the items are left in emission order.
sortItemsSkipped(items) == items

RECURSIVE sortItems(_)
sortItems(items) ==
  IF items = <<>> THEN <<>>
  ELSE insertSorted(sortItems(SubSeq(items, 1, Len(items) - 1)), items[Len(items)])

\* The items of one month before the sort.
emitMonthItems(ps, es, monthId) ==
  addMonthEntries(plansItems(ps, es, monthId),
                  SelectSeq(es, LAMBDA e : e.month_year = monthId), monthId)

\* The sort calls the comparator on every element once there are two.
sortThrows(items) ==
  Len(items) >= 2 /\ \E i \in 1..Len(items) : CategoryThrows(items[i])

\* monthItemsMap.set(monthId, items): the array of the last iteration of a key
\* is the one the map keeps.
lastIndexOf(ids, m) ==
  CHOOSE j \in 1..Len(ids) : ids[j] = m /\ \A k \in (j + 1)..Len(ids) : ids[k] # m

\* Variant: the objects of one array are used again for the next month.
allocatePooled(items, j) ==
  [n \in 1..Len(items) |-> [items[n] EXCEPT !.ref = <<1, n>>]]

\* Every items.push({...}) of iteration j of the loop over monthIds stores a
\* new object: the n-th push of the iteration is the object <<j, n>>.
allocate(items, j) ==
  [n \in 1..Len(items) |-> [items[n] EXCEPT !.ref = <<j, n>>]]

RECURSIVE emitAllMonths(_, _, _)
emitAllMonths(ps, es, ids) ==
  IF ids = <<>> THEN <<>>
  ELSE emitMonthItems(ps, es, Head(ids)) \o emitAllMonths(ps, es, Tail(ids))

\* Variant: the items array is declared outside the loop over monthIds, so
\* every key of the map holds the one array with the items of all months.
buildMonthItemsHoisted(ps, es, ids) ==
  LET keys == {ids[k] : k \in 1..Len(ids)}
      threw == sortThrows(emitAllMonths(ps, es, ids))
  IN  [threw |-> threw,
       map |-> IF threw THEN <<>>
               ELSE [m \in keys |-> sortItems(allocate(emitAllMonths(ps, es, ids), 1))]]

\* buildMonthItems: threw is the TypeError of the comparator; map is
\* monthItemsMap.
buildMonthItems(ps, es, ids) ==
  LET keys == {ids[k] : k \in 1..Len(ids)}
      threw == \E m \in keys : sortThrows(emitMonthItems(ps, es, m))
  IN  [threw |-> threw,
       map |-> IF threw THEN <<>>
               ELSE [m \in keys |->
                       sortItems(allocate(emitMonthItems(ps, es, m), lastIndexOf(ids, m)))]]

(***************************************************************************)
(* Balance projection.                                                     *)
(***************************************************************************)
\* Variant: the sign of the two category types is inverted.
signedAmountInverted(item) ==
  IF itemCategory(item).type = "income" THEN -itemAmount(item) ELSE itemAmount(item)

signedAmount(item) ==
  IF itemCategory(item).type = "income" THEN itemAmount(item) ELSE -itemAmount(item)

\* Variant: the expected amount of the plan is taken for realized items too.
RECURSIVE expectedBalanceOfPlanned(_)
expectedBalanceOfPlanned(items) ==
  IF items = <<>> THEN 0
  ELSE LET item == items[Len(items)]
           planned == IF item.type = "entry" THEN item.entry.plan.expected_amount
                      ELSE item.plan.expected_amount
       IN  expectedBalanceOfPlanned(SubSeq(items, 1, Len(items) - 1))
           + (IF itemCategory(item).type = "income" THEN planned ELSE -planned)

\* items.reduce of expectedBalance.
RECURSIVE expectedBalanceOf(_)
expectedBalanceOf(items) ==
  IF items = <<>> THEN 0
  ELSE expectedBalanceOf(SubSeq(items, 1, Len(items) - 1)) + signedAmount(items[Len(items)])

\* Variant: the expected items are summed as well.
RECURSIVE actualBalanceOfAll(_)
actualBalanceOfAll(items) ==
  IF items = <<>> THEN 0
  ELSE actualBalanceOfAll(SubSeq(items, 1, Len(items) - 1)) + signedAmount(items[Len(items)])

\* items.reduce of actualBalance.
RECURSIVE actualBalanceOf(_)
actualBalanceOf(items) ==
  IF items = <<>> THEN 0
  ELSE LET item == items[Len(items)]
           sum == actualBalanceOf(SubSeq(items, 1, Len(items) - 1))
       IN  IF item.type # "entry" THEN sum
           ELSE sum + (IF item.entry.plan.category.type = "income"
                       THEN item.entry.amount ELSE -item.entry.amount)

\* Variant: the balance is tested before the item is applied.
RECURSIVE flagItemsBefore(_, _)
flagItemsBefore(items, runningBalance) ==
  IF items = <<>> THEN <<>>
  ELSE LET item == Head(items)
           running == runningBalance + signedAmount(item)
           flagged == IF item.type = "expected"
                         /\ itemCategory(item).type = "expense" /\ runningBalance < 0
                      THEN [item EXCEPT !.wouldCauseDebt = TRUE]
                      ELSE item
       IN  <<flagged>> \o flagItemsBefore(Tail(items), running)

\* The loop that sets item.wouldCauseDebt (a flag once set stays set).
RECURSIVE flagItems(_, _)
flagItems(items, runningBalance) ==
  IF items = <<>> THEN <<>>
  ELSE LET item == Head(items)
           running == runningBalance + signedAmount(item)
           flagged == IF item.type = "expected"
                         /\ itemCategory(item).type = "expense" /\ running < 0
                      THEN [item EXCEPT !.wouldCauseDebt = TRUE]
                      ELSE item
       IN  <<flagged>> \o flagItems(Tail(items), running)

\* Variant: the balance of the month is assigned, the carry is lost.
cumulativeAssigned(cumulative, balance) == balance

\* Variant: the balance of the month is not added.
cumulativeKept(cumulative, balance) == cumulative

\* cumulativeExpected += expectedBalance; cumulativeActual += actualBalance
cumulativeAfter(cumulative, balance) == cumulative + balance

\* monthIds.map: the summaries keep a reference to the arrays of the map, so
\* the items of a summary are those of the map once the walk has ended.
RECURSIVE projectMonths(_, _, _, _, _, _)
projectMonths(ids, k, map, cumulativeExpected, cumulativeActual, clock) ==
  IF k > Len(ids) THEN [map |-> map, out |-> <<>>]
  ELSE LET monthId == ids[k]
           items == map[monthId]
           expectedBalance == expectedBalanceOf(items)
           actualBalance == actualBalanceOf(items)
           rest == projectMonths(ids, k + 1,
                                 [map EXCEPT ![monthId] = flagItems(items, cumulativeExpected)],
                                 cumulativeAfter(cumulativeExpected, expectedBalance),
                                 cumulativeAfter(cumulativeActual, actualBalance), clock)
       IN  [map |-> rest.map,
            out |-> <<[id |-> monthId,
                       name |-> formatMonthName(monthId, clock),
                       expectedBalance |-> expectedBalance,
                       actualBalance |-> actualBalance,
                       cumulativeExpected |-> cumulativeAfter(cumulativeExpected, expectedBalance),
                       cumulativeActual |-> cumulativeAfter(cumulativeActual, actualBalance)]>>
                    \o rest.out]

TypeError(fn) == [fn |-> fn, status |-> "TypeError", months |-> <<>>]

calculateBalances(ids, ps, es, balance, clock) ==
  LET built == buildMonthItems(ps, es, ids)
  IN  IF built.threw
         \/ \E m \in DOMAIN built.map :
              \E i \in 1..Len(built.map[m]) : CategoryThrows(built.map[m][i])
      THEN TypeError("calculateBalances")
      ELSE LET walk == projectMonths(ids, 1, built.map, balance, balance, clock)
           IN  [fn |-> "calculateBalances", status |-> "ok",
                months |-> [k \in 1..Len(ids) |->
                   [id |-> walk.out[k].id,
                    name |-> walk.out[k].name,
                    items |-> walk.map[ids[k]],
                    expectedBalance |-> walk.out[k].expectedBalance,
                    actualBalance |-> walk.out[k].actualBalance,
                    cumulativeExpected |-> walk.out[k].cumulativeExpected,
                    cumulativeActual |-> walk.out[k].cumulativeActual]]]

\* The null that findEarliestAffordableMonth returns (no month key has length 1).
Null == <<"null">>

\* Variant: a month that covers the amount exactly does not qualify.
RECURSIVE findEarliestAboveMonth(_, _)
findEarliestAboveMonth(amount, months) ==
  IF months = <<>> THEN Null
  ELSE IF Head(months).cumulativeExpected > amount THEN Head(months).id
  ELSE findEarliestAboveMonth(amount, Tail(months))

RECURSIVE findEarliestAffordableMonth(_, _)
findEarliestAffordableMonth(amount, months) ==
  IF months = <<>> THEN Null
  ELSE IF Head(months).cumulativeExpected >= amount THEN Head(months).id
  ELSE findEarliestAffordableMonth(amount, Tail(months))

(***************************************************************************)
(* The builder and projection of src/lib/calculations.ts (one entry per    *)
(* plan and month, no sort, no debt flag).                                 *)
(***************************************************************************)
\* entriesByPlanAndMonth.set(key, entry): the last entry of a key wins.
libEntryByPlanAndMonth(es, planId, monthId) ==
  LET hits == entriesByPlanAndMonth(es, planId, monthId)
  IN  IF hits = <<>> THEN Undefined ELSE hits[Len(hits)]

libPlanItems(plan, es, monthId) ==
  LET existingEntry == libEntryByPlanAndMonth(es, plan.id, monthId)
  IN  IF existingEntry # Undefined THEN <<EntryItem(existingEntry, monthId)>>
      ELSE IF isPlanActiveInMonth(plan, monthId)
      THEN IF plan.frequency = "biweekly"
           THEN <<ExpectedItem(plan, monthId), ExpectedItem(plan, monthId)>>
           ELSE <<ExpectedItem(plan, monthId)>>
      ELSE <<>>

RECURSIVE libPlansItems(_, _, _)
libPlansItems(ps, es, monthId) ==
  IF ps = <<>> THEN <<>>
  ELSE libPlanItems(Head(ps), es, monthId) \o libPlansItems(Tail(ps), es, monthId)

libBuildMonthItems(ps, es, ids) ==
  [m \in {ids[k] : k \in 1..Len(ids)} |->
     addMonthEntries(libPlansItems(ps, es, m),
                     SelectSeq(es, LAMBDA e : e.month_year = m), m)]

RECURSIVE libProjectMonths(_, _, _, _, _, _)
libProjectMonths(ids, k, map, cumulativeExpected, cumulativeActual, clock) ==
  IF k > Len(ids) THEN <<>>
  ELSE LET monthId == ids[k]
           items == map[monthId]
           expectedBalance == expectedBalanceOf(items)
           actualBalance == actualBalanceOf(items)
       IN  <<[id |-> monthId,
              name |-> formatMonthName(monthId, clock),
              items |-> items,
              expectedBalance |-> expectedBalance,
              actualBalance |-> actualBalance,
              cumulativeExpected |-> cumulativeAfter(cumulativeExpected, expectedBalance),
              cumulativeActual |-> cumulativeAfter(cumulativeActual, actualBalance)]>>
           \o libProjectMonths(ids, k + 1, map,
                               cumulativeAfter(cumulativeExpected, expectedBalance),
                               cumulativeAfter(cumulativeActual, actualBalance), clock)

libCalculateBalances(ids, ps, es, balance, clock) ==
  LET map == libBuildMonthItems(ps, es, ids)
  IN  IF \E m \in DOMAIN map : \E i \in 1..Len(map[m]) : CategoryThrows(map[m][i])
      THEN TypeError("libCalculateBalances")
      ELSE [fn |-> "libCalculateBalances", status |-> "ok",
            months |-> libProjectMonths(ids, 1, map, balance, balance, clock)]

(***************************************************************************)
(* The anonymous-mode projection of src/pages/anonymous-app.tsx.           *)
(***************************************************************************)
\* Variant: the status is not looked at.
localPlanInMonthWhenCompleted(plan, monthId) ==
  IF plan.frequency = "one-time" THEN plan.start_month = monthId
  ELSE IF StrLess(monthId, plan.start_month) THEN FALSE
  ELSE IF plan.end_month # NoMonth /\ StrLess(plan.end_month, monthId) THEN FALSE
  ELSE TRUE

\* The filter that selects monthPlans.
localPlanInMonth(plan, monthId) ==
  IF plan.status = "completed" THEN FALSE
  ELSE IF plan.frequency = "one-time" THEN plan.start_month = monthId
  ELSE IF StrLess(monthId, plan.start_month) THEN FALSE
  ELSE IF plan.end_month # NoMonth /\ StrLess(plan.end_month, monthId) THEN FALSE
  ELSE TRUE

LocalEntryItem(e, m) ==
  [type |-> "entry", entry |-> e, plan |-> Undefined, month_year |-> m,
   wouldCauseDebt |-> FALSE, ref |-> NoRef]

RECURSIVE sumPlans(_, _)
sumPlans(ps, type) ==
  IF ps = <<>> THEN 0
  ELSE (IF Head(ps).category.type = type THEN Head(ps).expected_amount ELSE 0)
       + sumPlans(Tail(ps), type)

RECURSIVE sumEntries(_, _)
sumEntries(es, type) ==
  IF es = <<>> THEN 0
  ELSE (IF Head(es).plan.category.type = type THEN Head(es).amount ELSE 0)
       + sumEntries(Tail(es), type)

MonthNames ==
  <<"January", "February", "March", "April", "May", "June", "July", "August",
    "September", "October", "November", "December">>

\* One iteration of `for (const monthId of monthIds)`, balances carried in.
localMonth(monthId, ps, es, cumulativeExpected, cumulativeActual) ==
  LET monthPlans == SelectSeq(ps, LAMBDA p : localPlanInMonth(p, monthId))
      monthEntries == SelectSeq(es, LAMBDA e : e.month_year = monthId)
      unmet == SelectSeq(monthPlans, LAMBDA p :
                 ~\E i \in 1..Len(monthEntries) : monthEntries[i].plan_id = p.id)
      items == [i \in 1..Len(unmet) |-> ExpectedItem(unmet[i], monthId)]
               \o [i \in 1..Len(monthEntries) |-> LocalEntryItem(monthEntries[i], monthId)]
      expectedBalance == sumPlans(monthPlans, "income") - sumPlans(monthPlans, "expense")
      actualBalance == sumEntries(monthEntries, "income") - sumEntries(monthEntries, "expense")
  IN  [id |-> monthId,
       name |-> [mon |-> MonthNames[Month(monthId)], year |-> SubSeq(monthId, 1, 4)],
       items |-> items,
       expectedBalance |-> expectedBalance,
       actualBalance |-> actualBalance,
       cumulativeExpected |-> cumulativeExpected + expectedBalance,
       cumulativeActual |-> cumulativeActual + actualBalance]

\* p.category.type or e.plan.category.type dereferences undefined.
localMonthThrows(monthId, ps, es) ==
  \/ \E i \in 1..Len(ps) :
       localPlanInMonth(ps[i], monthId) /\ ps[i].category = Undefined
  \/ \E i \in 1..Len(es) :
       /\ es[i].month_year = monthId
       /\ (es[i].plan = Undefined \/ es[i].plan.category = Undefined)

RECURSIVE localMonths(_, _, _, _, _, _)
localMonths(ids, k, ps, es, cumulativeExpected, cumulativeActual) ==
  IF k > Len(ids) THEN <<>>
  ELSE LET month == localMonth(ids[k], ps, es, cumulativeExpected, cumulativeActual)
       IN  <<month>> \o localMonths(ids, k + 1, ps, es, month.cumulativeExpected,
                                    month.cumulativeActual)

calculateLocalBalances(ids, ps, es, balance) ==
  IF \E k \in 1..Len(ids) : localMonthThrows(ids[k], ps, es)
  THEN TypeError("calculateLocalBalances")
  ELSE [fn |-> "calculateLocalBalances", status |-> "ok",
        months |-> localMonths(ids, 1, ps, es, balance, balance)]

(***************************************************************************)
(* The local store of src/lib/local-storage.ts.  A cashflow is the record  *)
(* kept under LOCAL_CASHFLOW_KEY, reduced to its plans and entries; names, *)
(* notes, dates and timestamps are left out.                               *)
(***************************************************************************)
\* DEFAULT_CATEGORIES, one of each type.
StoreCategories == <<[id |-> 1, type |-> "income"], [id |-> 2, type |-> "expense"]>>

\* Array.prototype.findIndex on the id: the first position, or -1.
findIndex(items, id) ==
  IF \E i \in 1..Len(items) : items[i].id = id
  THEN CHOOSE i \in 1..Len(items) :
         items[i].id = id /\ \A j \in 1..(i - 1) : items[j].id # id
  ELSE -1

\* { ...object, ...updates }
spread(object, updates) ==
  [f \in DOMAIN object |-> IF f \in DOMAIN updates THEN updates[f] ELSE object[f]]

addLocalPlan(c, id, plan) ==
  [c EXCEPT !.plans = Append(@,
     [id |-> id, category_id |-> plan.category_id,
      expected_amount |-> plan.expected_amount, frequency |-> plan.frequency,
      start_month |-> plan.start_month, end_month |-> plan.end_month,
      status |-> "active"])]

updateLocalPlan(c, id, updates) ==
  LET index == findIndex(c.plans, id)
  IN  IF index = -1 THEN c
      ELSE [c EXCEPT !.plans[index] = spread(@, updates)]

\* Variant: the entries of the plan are kept.
deleteLocalPlanOnly(c, id) ==
  [c EXCEPT !.plans = SelectSeq(@, LAMBDA p : p.id # id)]

deleteLocalPlan(c, id) ==
  [c EXCEPT !.plans = SelectSeq(@, LAMBDA p : p.id # id),
            !.entries = SelectSeq(@, LAMBDA e : e.plan_id # id)]

\* Variant: the plan is completed whatever its frequency.
addLocalEntryCompleting(c, id, entry) ==
  LET pushed == [c EXCEPT !.entries = Append(@,
                   [id |-> id, plan_id |-> entry.plan_id,
                    month_year |-> entry.month_year, amount |-> entry.amount])]
      index == findIndex(c.plans, entry.plan_id)
  IN  IF index # -1
      THEN [pushed EXCEPT !.plans[index].status = "completed"]
      ELSE pushed

addLocalEntry(c, id, entry) ==
  LET pushed == [c EXCEPT !.entries = Append(@,
                   [id |-> id, plan_id |-> entry.plan_id,
                    month_year |-> entry.month_year, amount |-> entry.amount])]
      index == findIndex(c.plans, entry.plan_id)
  IN  IF index # -1 /\ c.plans[index].frequency = "one-time"
      THEN [pushed EXCEPT !.plans[index].status = "completed"]
      ELSE pushed

updateLocalEntry(c, id, updates) ==
  LET index == findIndex(c.entries, id)
  IN  IF index = -1 THEN c
      ELSE [c EXCEPT !.entries[index] = spread(@, updates)]

\* Variant: a plan left without an entry is set back to active.
deleteLocalEntryReverting(c, id) ==
  LET kept == SelectSeq(c.entries, LAMBDA e : e.id # id)
  IN  [plans |-> [i \in 1..Len(c.plans) |->
                    IF \A j \in 1..Len(kept) : kept[j].plan_id # c.plans[i].id
                    THEN [c.plans[i] EXCEPT !.status = "active"]
                    ELSE c.plans[i]],
       entries |-> kept]

deleteLocalEntry(c, id) ==
  [c EXCEPT !.entries = SelectSeq(@, LAMBDA e : e.id # id)]

\* categories.find(...)! and plans.find(...)!: undefined when nothing matches.
localPlanToApiPlan(localPlan, categories) ==
  LET index == findIndex(categories, localPlan.category_id)
  IN  [id |-> localPlan.id, category_id |-> localPlan.category_id,
       expected_amount |-> localPlan.expected_amount,
       frequency |-> localPlan.frequency, start_month |-> localPlan.start_month,
       end_month |-> localPlan.end_month, status |-> localPlan.status,
       category |-> IF index = -1 THEN Undefined ELSE categories[index]]

localEntryToApiEntry(localEntry, ps) ==
  LET index == findIndex(ps, localEntry.plan_id)
  IN  [id |-> localEntry.id, plan_id |-> localEntry.plan_id,
       month_year |-> localEntry.month_year, amount |-> localEntry.amount,
       plan |-> IF index = -1 THEN Undefined ELSE ps[index]]

\* The plans and entries AnonymousApp hands to calculateLocalBalances.
apiPlans(c) ==
  [i \in 1..Len(c.plans) |-> localPlanToApiPlan(c.plans[i], StoreCategories)]
apiEntries(c) ==
  [i \in 1..Len(c.entries) |-> localEntryToApiEntry(c.entries[i], apiPlans(c))]

(***************************************************************************)
(* Inputs of the model.                                                    *)
(***************************************************************************)
MonthKey(y, m) == generateMonthId([year |-> y, month |-> m - 1, day |-> 1])

\* The clock read by `new Date()`.
MountClock == [year |-> 2025, month |-> 10, day |-> 30]
Clocks == {MountClock, [year |-> 2026, month |-> 0, day |-> 31]}

StartMonths == {MonthKey(2025, 12)}
PlanMonths == {MonthKey(2025, 12), MonthKey(2026, 1)}
PlanAmounts == {2}
EntryAmounts == {3}
Balances == {0, 2}
\* The id of a plan that is in no list.
OrphanId == MaxPlans + 1

\* A monthly plan that runs from the first requested month on.
RunningPlans(id) ==
  [id : {id}, category : [type : CategoryTypes], expected_amount : PlanAmounts,
   frequency : {"monthly"}, start_month : StartMonths,
   end_month : {NoMonth}, status : {"active"}]

\* A plan of any shape; its category may be missing from the category list.
AnyPlans(id) ==
  [id : {id}, category : [type : CategoryTypes] \cup {Undefined},
   expected_amount : PlanAmounts, frequency : Frequencies,
   start_month : PlanMonths, end_month : PlanMonths \cup {NoMonth},
   status : Statuses]

\* Lists of plans with ids 1..n: several running plans, or one plan of any shape.
PlanLists ==
  UNION {{ps \in [1..n -> UNION {RunningPlans(i) : i \in 1..n}] :
             \A i \in 1..n : ps[i].id = i} : n \in 0..MaxPlans}
  \cup {<<p>> : p \in AnyPlans(1)}

\* The plan an entry carries: the listed plan, or for an entry of a plan that
\* is not listed either nothing or a plan of its own.
EmbeddedPlans(ps, planId) ==
  IF planId \in 1..Len(ps) THEN {ps[planId]}
  ELSE {Undefined} \cup
       {[id |-> planId, category |-> [type |-> "income"], expected_amount |-> a,
         frequency |-> "monthly", start_month |-> m, end_month |-> NoMonth,
         status |-> "active"] : a \in PlanAmounts, m \in StartMonths}

EntriesOf(ps, id) ==
  UNION {[id : {id}, plan_id : {pid}, month_year : PlanMonths, amount : EntryAmounts,
          plan : EmbeddedPlans(ps, pid)] : pid \in (1..Len(ps)) \cup {OrphanId}}

EntryLists(ps) ==
  UNION {{es \in [1..n -> UNION {EntriesOf(ps, i) : i \in 1..n}] :
             \A i \in 1..n : es[i].id = i} : n \in 0..MaxEntries}

\* createEmptyLocalCashflow: no plan, no entry.
EmptyCashflow == [plans |-> <<>>, entries |-> <<>>]
NoOp == [name |-> "none", id |-> 0, had |-> 0]

\* The store of a session that has stored nothing.
StoreIdle ==
  /\ cashflow = EmptyCashflow
  /\ nextId = 1
  /\ selectedPlanId = 0
  /\ op = NoOp

\* What localStorage.getItem returns for a key that is not set, and the null
\* of the module variables.
NullItem == [null |-> TRUE]

\* AuthenticatedApp before it is mounted.
NoAuth == [phase |-> "none"]

\* A page that has stored nothing and run nothing of the session.
SessionIdle ==
  /\ localStorage = [cashflow |-> NullItem, pending |-> FALSE]
  /\ cachedRawJson = NullItem
  /\ cachedCashflow = NullItem
  /\ auth = NoAuth

NoResult == [fn |-> "none", status |-> "none", months |-> <<>>]
NoQuery == [asked |-> FALSE, amount |-> 0, month |-> Null]

\* The state of the mounted App: the month window and the loaded data.
Init ==
  /\ now = MountClock
  /\ startMonth \in StartMonths
  /\ count \in 1..MaxCount
  /\ monthIds = generateMonthRange(startMonth, count, now)
  /\ plans \in PlanLists
  /\ entries \in EntryLists(plans)
  /\ startingBalance \in Balances
  /\ result = NoResult
  /\ prev = NoResult
  /\ calls = <<>>
  /\ query = NoQuery
  /\ StoreIdle
  /\ SessionIdle

\* months = calculateBalances(monthIds, plans, entries, startingBalance)
CalculateBalances ==
  /\ calls = <<>>
  /\ result' = calculateBalances(monthIds, plans, entries, startingBalance, now)
  /\ calls' = <<now>>
  /\ UNCHANGED <<now, startMonth, count, monthIds, plans, entries, startingBalance,
                 prev, query>>
  /\ UNCHANGED storeVars
  /\ UNCHANGED sessionVars

\* The same call on the builder of src/lib/calculations.ts.
LibCalculateBalances ==
  /\ calls = <<>>
  /\ result' = libCalculateBalances(monthIds, plans, entries, startingBalance, now)
  /\ calls' = <<now>>
  /\ UNCHANGED <<now, startMonth, count, monthIds, plans, entries, startingBalance,
                 prev, query>>
  /\ UNCHANGED storeVars
  /\ UNCHANGED sessionVars

\* months = calculateLocalBalances(monthIds, plans, entries, startingBalance)
CalculateLocalBalances ==
  /\ calls = <<>>
  /\ result' = calculateLocalBalances(monthIds, plans, entries, startingBalance)
  /\ calls' = <<now>>
  /\ UNCHANGED <<now, startMonth, count, monthIds, plans, entries, startingBalance,
                 prev, query>>
  /\ UNCHANGED storeVars
  /\ UNCHANGED sessionVars

Next == CalculateBalances \/ LibCalculateBalances \/ CalculateLocalBalances

Spec == Init /\ [][Next]_vars

(***************************************************************************)
(* Repeated projection of the same inputs while the clock advances.        *)
(***************************************************************************)
Tick ==
  /\ now' \in Clocks \ {now}
  /\ UNCHANGED <<startMonth, count, monthIds, plans, entries, startingBalance,
                 result, prev, calls, query>>
  /\ UNCHANGED storeVars
  /\ UNCHANGED sessionVars

\* A further call of calculateBalances with the inputs of the last one.
Recalculate ==
  /\ calls # <<>>
  /\ Len(calls) < MaxCalls
  /\ result.fn = "calculateBalances"
  /\ prev' = result
  /\ result' = calculateBalances(monthIds, plans, entries, startingBalance, now)
  /\ calls' = Append(calls, now)
  /\ UNCHANGED <<now, startMonth, count, monthIds, plans, entries, startingBalance,
                 query>>
  /\ UNCHANGED storeVars
  /\ UNCHANGED sessionVars

InitDet == Init /\ Len(entries) <= 1

NextDet == Tick \/ CalculateBalances \/ Recalculate

SpecDet == InitDet /\ [][NextDet]_vars

(***************************************************************************)
(* Projection of a window and then of a shorter window that starts at the  *)
(* same month, the other inputs being the same.                            *)
(***************************************************************************)
\* A further call of calculateBalances after the window has been cut to its
\* first n months.
CalculatePrefix ==
  /\ calls # <<>>
  /\ Len(calls) < MaxCalls
  /\ result.fn = "calculateBalances"
  /\ \E n \in 1..(Len(monthIds) - 1) :
       /\ count' = n
       /\ monthIds' = SubSeq(monthIds, 1, n)
       /\ result' = calculateBalances(SubSeq(monthIds, 1, n), plans, entries,
                                      startingBalance, now)
  /\ prev' = result
  /\ calls' = Append(calls, now)
  /\ UNCHANGED <<now, startMonth, plans, entries, startingBalance, query>>
  /\ UNCHANGED storeVars
  /\ UNCHANGED sessionVars

NextPrefix == CalculateBalances \/ CalculatePrefix

SpecPrefix == Init /\ [][NextPrefix]_vars

(***************************************************************************)
(* generateMonthRange on its own.                                          *)
(***************************************************************************)
RangeStarts == {MonthKey(y, m) : y \in 2024..2026, m \in 1..12}

InitRange ==
  /\ now \in Clocks
  /\ startMonth \in RangeStarts
  /\ count \in 1..MaxRange
  /\ monthIds = <<>>
  /\ plans = <<>>
  /\ entries = <<>>
  /\ startingBalance = 0
  /\ result = NoResult
  /\ prev = NoResult
  /\ calls = <<>>
  /\ query = NoQuery
  /\ StoreIdle
  /\ SessionIdle

GenerateMonthRange ==
  /\ monthIds = <<>>
  /\ monthIds' = generateMonthRange(startMonth, count, now)
  /\ UNCHANGED <<now, startMonth, count, plans, entries, startingBalance,
                 result, prev, calls, query>>
  /\ UNCHANGED storeVars
  /\ UNCHANGED sessionVars

NextRange == GenerateMonthRange

SpecRange == InitRange /\ [][NextRange]_vars

(***************************************************************************)
(* findEarliestAffordableMonth on its own.                                 *)
(***************************************************************************)
CumulativeValues == (-1)..2
QueryAmounts == (-1)..3

Summary(id, c) ==
  [id |-> id, name |-> [mon |-> MonthAbbrev[Month(id)], year |-> Year(id)],
   items |-> <<>>, expectedBalance |-> 0, actualBalance |-> 0,
   cumulativeExpected |-> c, cumulativeActual |-> 0]

InitAfford ==
  /\ now \in Clocks
  /\ startMonth \in StartMonths
  /\ count \in 0..MaxSummaries
  /\ monthIds = generateMonthRange(startMonth, count, now)
  /\ plans = <<>>
  /\ entries = <<>>
  /\ startingBalance = 0
  /\ \E c \in [1..count -> CumulativeValues] :
       result = [fn |-> "summaries", status |-> "ok",
                 months |-> [k \in 1..count |-> Summary(monthIds[k], c[k])]]
  /\ prev = NoResult
  /\ calls = <<>>
  /\ query = NoQuery
  /\ StoreIdle
  /\ SessionIdle

FindEarliestAffordableMonth ==
  /\ ~query.asked
  /\ \E amount \in QueryAmounts :
       query' = [asked |-> TRUE, amount |-> amount,
                 month |-> findEarliestAffordableMonth(amount, result.months)]
  /\ UNCHANGED <<now, startMonth, count, monthIds, plans, entries, startingBalance,
                 result, prev, calls>>
  /\ UNCHANGED storeVars
  /\ UNCHANGED sessionVars

NextAfford == FindEarliestAffordableMonth

SpecAfford == InitAfford /\ [][NextAfford]_vars

(***************************************************************************)
(* The operations of the local store as AnonymousApp calls them.  The      *)
(* stored cashflow is shared by every tab of the origin, the modal state   *)
(* selectedPlanId is that of one tab.                                      *)
(***************************************************************************)
\* filteredCategories of the modal: entryType is "income" until an item is clicked.
StoreCategoryIds ==
  {StoreCategories[i].id : i \in {j \in 1..Len(StoreCategories) :
                                    StoreCategories[j].type = "income"}}
EditAmounts == {a + 1 : a \in EntryAmounts}
WindowMonths == {monthIds[k] : k \in 1..Len(monthIds)}
StoredPlanIds == {cashflow.plans[i].id : i \in 1..Len(cashflow.plans)}
StoredEntryIds == {cashflow.entries[i].id : i \in 1..Len(cashflow.entries)}

\* A session that starts with an empty store and shows one month.
InitStore ==
  /\ now = MountClock
  /\ startMonth \in StartMonths
  /\ count = 1
  /\ monthIds = generateMonthRange(startMonth, count, now)
  /\ plans = <<>>
  /\ entries = <<>>
  /\ startingBalance = 0
  /\ result = NoResult
  /\ prev = NoResult
  /\ calls = <<>>
  /\ query = NoQuery
  /\ StoreIdle
  /\ SessionIdle

\* handleSave of a new plan: the modal passes its month, monthIds[0] unless
\* the user picks another, and no end_month.
AddLocalPlan ==
  /\ nextId <= MaxIds
  /\ Len(cashflow.plans) < MaxPlans
  /\ \E cat \in StoreCategoryIds, a \in PlanAmounts, f \in Frequencies :
       cashflow' = addLocalPlan(cashflow, nextId,
                     [category_id |-> cat, expected_amount |-> a, frequency |-> f,
                      start_month |-> monthIds[1], end_month |-> NoMonth])
  /\ nextId' = nextId + 1
  /\ op' = [name |-> "addLocalPlan", id |-> nextId, had |-> Len(cashflow.entries)]
  /\ UNCHANGED <<now, startMonth, count, monthIds, plans, entries, startingBalance,
                 result, prev, calls, query, selectedPlanId>>
  /\ UNCHANGED sessionVars

\* The modal opens on an item of a stored plan: setSelectedPlanId.
SelectPlan ==
  /\ \E id \in StoredPlanIds \ {selectedPlanId} : selectedPlanId' = id
  /\ UNCHANGED <<now, startMonth, count, monthIds, plans, entries, startingBalance,
                 result, prev, calls, query, cashflow, nextId, op>>
  /\ UNCHANGED sessionVars

\* The end month the plan form of the modal was loaded with.
loadedEndMonth(c, id) ==
  LET index == findIndex(c.plans, id)
  IN  IF index = -1 THEN NoMonth ELSE c.plans[index].end_month

\* The frequency the plan form of the modal was loaded with.
loadedFrequency(c, id) ==
  LET index == findIndex(c.plans, id)
  IN  IF index = -1 THEN "one-time" ELSE c.plans[index].frequency

\* handleSavePlanOnly after the user picked a frequency in the plan form.
UpdateLocalPlan ==
  /\ selectedPlanId # 0
  /\ \E f \in Frequencies :
       cashflow' = updateLocalPlan(cashflow, selectedPlanId,
                     [frequency |-> f,
                      end_month |-> loadedEndMonth(cashflow, selectedPlanId)])
  /\ op' = [name |-> "updateLocalPlan", id |-> selectedPlanId, had |-> Len(cashflow.entries)]
  /\ UNCHANGED <<now, startMonth, count, monthIds, plans, entries, startingBalance,
                 result, prev, calls, query, nextId, selectedPlanId>>
  /\ UNCHANGED sessionVars

\* handleSavePlanOnly after the user picked an end month (or none) in the plan
\* form.
UpdatePlanEndMonth ==
  /\ selectedPlanId # 0
  /\ \E e \in WindowMonths \cup {NoMonth} :
       cashflow' = updateLocalPlan(cashflow, selectedPlanId,
                     [frequency |-> loadedFrequency(cashflow, selectedPlanId),
                      end_month |-> e])
  /\ op' = [name |-> "updateLocalPlan", id |-> selectedPlanId, had |-> Len(cashflow.entries)]
  /\ UNCHANGED <<now, startMonth, count, monthIds, plans, entries, startingBalance,
                 result, prev, calls, query, nextId, selectedPlanId>>
  /\ UNCHANGED sessionVars

\* The cards ItemCard makes draggable: the expected items of one-time plans in
\* the months AnonymousApp shows.
DraggableItems ==
  LET shown == calculateLocalBalances(monthIds, apiPlans(cashflow), apiEntries(cashflow),
                                      startingBalance)
  IN  IF shown.status # "ok" THEN {}
      ELSE UNION {{shown.months[k].items[i] : i \in 1..Len(shown.months[k].items)} :
                    k \in 1..Len(shown.months)}

handleDragEnd(c, item, targetMonthId) ==
  IF item.month_year = targetMonthId THEN c
  ELSE updateLocalPlan(c, item.plan.id, [start_month |-> targetMonthId])

HandleDragEnd ==
  /\ \E items \in {DraggableItems} : \E targetMonthId \in WindowMonths :
       \E item \in {it \in items : it.type = "expected" /\ it.plan.frequency = "one-time"} :
         /\ cashflow' = handleDragEnd(cashflow, item, targetMonthId)
         /\ op' = [name |-> "handleDragEnd", id |-> item.plan.id, had |-> Len(cashflow.entries)]
  /\ UNCHANGED <<now, startMonth, count, monthIds, plans, entries, startingBalance,
                 result, prev, calls, query, nextId, selectedPlanId>>
  /\ UNCHANGED sessionVars

\* handleDeleteItem of an expected item.
DeleteLocalPlan ==
  /\ \E id \in StoredPlanIds :
       /\ cashflow' = deleteLocalPlan(cashflow, id)
       /\ op' = [name |-> "deleteLocalPlan", id |-> id, had |-> Len(cashflow.entries)]
  /\ UNCHANGED <<now, startMonth, count, monthIds, plans, entries, startingBalance,
                 result, prev, calls, query, nextId, selectedPlanId>>
  /\ UNCHANGED sessionVars

\* handleSave of an entry against the plan the modal is open on.
AddLocalEntry ==
  /\ selectedPlanId # 0
  /\ nextId <= MaxIds
  /\ Len(cashflow.entries) < MaxEntries
  /\ \E a \in EntryAmounts :
       cashflow' = addLocalEntry(cashflow, nextId,
                     [plan_id |-> selectedPlanId, month_year |-> monthIds[1], amount |-> a])
  /\ nextId' = nextId + 1
  /\ op' = [name |-> "addLocalEntry", id |-> selectedPlanId, had |-> Len(cashflow.entries)]
  /\ UNCHANGED <<now, startMonth, count, monthIds, plans, entries, startingBalance,
                 result, prev, calls, query, selectedPlanId>>
  /\ UNCHANGED sessionVars

\* handleSave of an edited entry: the amount (date and notes are left out).
UpdateLocalEntry ==
  /\ \E id \in StoredEntryIds, a \in EditAmounts :
       /\ cashflow' = updateLocalEntry(cashflow, id, [amount |-> a])
       /\ op' = [name |-> "updateLocalEntry", id |-> id, had |-> Len(cashflow.entries)]
  /\ UNCHANGED <<now, startMonth, count, monthIds, plans, entries, startingBalance,
                 result, prev, calls, query, nextId, selectedPlanId>>
  /\ UNCHANGED sessionVars

\* handleDeleteItem of a realized item.
DeleteLocalEntry ==
  /\ \E id \in StoredEntryIds :
       /\ cashflow' = deleteLocalEntry(cashflow, id)
       /\ op' = [name |-> "deleteLocalEntry", id |-> id, had |-> Len(cashflow.entries)]
  /\ UNCHANGED <<now, startMonth, count, monthIds, plans, entries, startingBalance,
                 result, prev, calls, query, nextId, selectedPlanId>>
  /\ UNCHANGED sessionVars

NextStore ==
  \/ AddLocalPlan \/ SelectPlan \/ UpdateLocalPlan
  \/ DeleteLocalPlan \/ AddLocalEntry \/ UpdateLocalEntry \/ DeleteLocalEntry

SpecStore == InitStore /\ [][NextStore]_vars

(***************************************************************************)
(* Entries recorded against stored plans and deleted again, the plans      *)
(* being edited in between.                                                *)
(***************************************************************************)
NextEntries ==
  AddLocalPlan \/ SelectPlan \/ UpdateLocalPlan \/ AddLocalEntry \/ DeleteLocalEntry

SpecEntries == InitStore /\ [][NextEntries]_vars

(***************************************************************************)
(* The cache of local-storage.ts over the cashflow key.  The text under    *)
(* the key is a value of its own kind: stringify makes it from a cashflow, *)
(* parse reads it back or throws.  A cashflow keeps its plans and entries  *)
(* through the round trip; the timestamps are left out.  getLocalCashflow  *)
(* and the operations are computed on the three things they read and       *)
(* write: the storage, cachedRawJson and cachedCashflow.                   *)
(***************************************************************************)
\* JSON.stringify of a cashflow.
stringify(c) == [json |-> c]

\* A text JSON.parse rejects.
Unparsable == [text |-> "{"]

\* JSON.parse throws a SyntaxError on the text.
parseThrows(data) == "json" \notin DOMAIN data

\* JSON.parse of a text it accepts.
JSONparse(data) == data.json

\* getLocalCashflow: the module variables after the call, and what the call
\* returned or threw.  cachedRawJson is assigned before the text is parsed.
getLocalCashflow(ls, rawJson, cached) ==
  LET data == ls.cashflow
  IN  IF data = NullItem
      THEN [cachedRawJson |-> NullItem, cachedCashflow |-> NullItem,
            status |-> "ok", value |-> NullItem]
      ELSE IF data = rawJson /\ cached # NullItem
      THEN [cachedRawJson |-> rawJson, cachedCashflow |-> cached,
            status |-> "ok", value |-> cached]
      ELSE IF parseThrows(data)
      THEN [cachedRawJson |-> data, cachedCashflow |-> cached,
            status |-> "SyntaxError", value |-> NullItem]
      ELSE [cachedRawJson |-> data, cachedCashflow |-> JSONparse(data),
            status |-> "ok", value |-> JSONparse(data)]

\* saveLocalCashflow: setItem throws when the storage takes no more, and the
\* two assignments after it are not reached.
saveLocalCashflow(ls, rawJson, cached, c, full) ==
  LET json == stringify(c)
  IN  IF full
      THEN [localStorage |-> ls, cachedRawJson |-> rawJson, cachedCashflow |-> cached,
            status |-> "QuotaExceededError"]
      ELSE [localStorage |-> [ls EXCEPT !.cashflow = json], cachedRawJson |-> json,
            cachedCashflow |-> JSONparse(json), status |-> "ok"]

\* clearLocalCashflow
clearLocalCashflow(ls) ==
  [localStorage |-> [ls EXCEPT !.cashflow = NullItem], cachedRawJson |-> NullItem,
   cachedCashflow |-> NullItem, status |-> "ok"]

\* getOrCreateLocalCashflow: the cached object itself when there is one, else
\* a new object, which is saved and is not the object the cache keeps.
getOrCreateLocalCashflow(ls, rawJson, cached, full) ==
  LET existing == getLocalCashflow(ls, rawJson, cached)
      saved == saveLocalCashflow(ls, existing.cachedRawJson, existing.cachedCashflow,
                                 EmptyCashflow, full)
  IN  IF existing.status # "ok"
      THEN [localStorage |-> ls, cachedRawJson |-> existing.cachedRawJson,
            cachedCashflow |-> existing.cachedCashflow, status |-> existing.status,
            value |-> NullItem, isCached |-> FALSE]
      ELSE IF existing.value # NullItem
      THEN [localStorage |-> ls, cachedRawJson |-> existing.cachedRawJson,
            cachedCashflow |-> existing.cachedCashflow, status |-> "ok",
            value |-> existing.value, isCached |-> TRUE]
      ELSE [localStorage |-> saved.localStorage, cachedRawJson |-> saved.cachedRawJson,
            cachedCashflow |-> saved.cachedCashflow, status |-> saved.status,
            value |-> EmptyCashflow, isCached |-> FALSE]

\* An operation of the store on the cashflow got from
\* getOrCreateLocalCashflow: it returns early when it does not find what it
\* looks for, changes the object in place and saves it.  The change is made
\* to the cached object when that is the object it was given.
storeOperation(got, found, changed, full) ==
  LET held == IF got.isCached THEN changed ELSE got.cachedCashflow
  IN  IF got.status # "ok"
      THEN [localStorage |-> got.localStorage, cachedRawJson |-> got.cachedRawJson,
            cachedCashflow |-> got.cachedCashflow, status |-> got.status]
      ELSE IF ~found
      THEN [localStorage |-> got.localStorage, cachedRawJson |-> got.cachedRawJson,
            cachedCashflow |-> got.cachedCashflow, status |-> "ok"]
      ELSE saveLocalCashflow(got.localStorage, got.cachedRawJson, held, changed, full)

\* The variables of the cache after a call.
CacheBecomes(after) ==
  /\ localStorage' = after.localStorage
  /\ cachedRawJson' = after.cachedRawJson
  /\ cachedCashflow' = after.cachedCashflow

\* What the store holds, as the next call of an operation finds it.
HeldCashflow ==
  LET got == getLocalCashflow(localStorage, cachedRawJson, cachedCashflow)
  IN  IF got.status = "ok" /\ got.value # NullItem THEN got.value ELSE EmptyCashflow

\* getSnapshot of AnonymousApp, or the effect of AuthenticatedApp, reads the
\* store.
GetLocalCashflow ==
  /\ LET got == getLocalCashflow(localStorage, cachedRawJson, cachedCashflow)
     IN  /\ cachedRawJson' = got.cachedRawJson
         /\ cachedCashflow' = got.cachedCashflow
  /\ <<cachedRawJson', cachedCashflow'>> # <<cachedRawJson, cachedCashflow>>
  /\ UNCHANGED <<now, startMonth, count, monthIds, plans, entries, startingBalance,
                 result, prev, calls, query, storeVars, localStorage, auth>>

GetOrCreateLocalCashflow ==
  /\ localStorage.cashflow = NullItem
  /\ \E full \in BOOLEAN :
       CacheBecomes(getOrCreateLocalCashflow(localStorage, cachedRawJson,
                                             cachedCashflow, full))
  /\ UNCHANGED <<now, startMonth, count, monthIds, plans, entries, startingBalance,
                 result, prev, calls, query, storeVars, auth>>

ClearLocalCashflow ==
  /\ localStorage.cashflow # NullItem
  /\ CacheBecomes(clearLocalCashflow(localStorage))
  /\ UNCHANGED <<now, startMonth, count, monthIds, plans, entries, startingBalance,
                 result, prev, calls, query, storeVars, auth>>

CachedAddLocalPlan ==
  /\ nextId <= MaxIds
  /\ Len(HeldCashflow.plans) < MaxPlans
  /\ \E cat \in StoreCategoryIds, full \in BOOLEAN :
       LET got == getOrCreateLocalCashflow(localStorage, cachedRawJson,
                                           cachedCashflow, full)
       IN  CacheBecomes(storeOperation(got, TRUE,
             addLocalPlan(got.value, nextId,
                          [category_id |-> cat, expected_amount |-> 1,
                           frequency |-> "monthly", start_month |-> monthIds[1],
                           end_month |-> NoMonth]),
             full))
  /\ nextId' = nextId + 1
  /\ UNCHANGED <<now, startMonth, count, monthIds, plans, entries, startingBalance,
                 result, prev, calls, query, cashflow, selectedPlanId, op, auth>>

CachedUpdateLocalPlan ==
  /\ \E id \in 1..(nextId - 1), f \in {"monthly", "one-time"}, full \in BOOLEAN :
       LET got == getOrCreateLocalCashflow(localStorage, cachedRawJson,
                                           cachedCashflow, full)
       IN  CacheBecomes(storeOperation(got, findIndex(got.value.plans, id) # -1,
             updateLocalPlan(got.value, id, [frequency |-> f]), full))
  /\ UNCHANGED <<now, startMonth, count, monthIds, plans, entries, startingBalance,
                 result, prev, calls, query, storeVars, auth>>

CachedDeleteLocalPlan ==
  /\ \E id \in 1..(nextId - 1), full \in BOOLEAN :
       LET got == getOrCreateLocalCashflow(localStorage, cachedRawJson,
                                           cachedCashflow, full)
       IN  CacheBecomes(storeOperation(got, TRUE, deleteLocalPlan(got.value, id), full))
  /\ UNCHANGED <<now, startMonth, count, monthIds, plans, entries, startingBalance,
                 result, prev, calls, query, storeVars, auth>>

\* Another tab of the same origin, or the user in the developer tools, sets
\* or removes the key: the cashflow another tab holds, no key, or a text
\* that is no JSON.
StorageWritten ==
  /\ \E data \in {NullItem, Unparsable, stringify(EmptyCashflow)} :
       /\ data # localStorage.cashflow
       /\ localStorage' = [localStorage EXCEPT !.cashflow = data]
  /\ UNCHANGED <<now, startMonth, count, monthIds, plans, entries, startingBalance,
                 result, prev, calls, query, storeVars, cachedRawJson, cachedCashflow,
                 auth>>

NextCache ==
  \/ GetLocalCashflow
  \/ GetOrCreateLocalCashflow
  \/ ClearLocalCashflow
  \/ CachedAddLocalPlan
  \/ CachedUpdateLocalPlan
  \/ CachedDeleteLocalPlan
  \/ StorageWritten

SpecCache == InitStore /\ [][NextCache]_vars

(***************************************************************************)
(* AuthenticatedApp after a login.  The page was loaded anew, so the       *)
(* module variables of local-storage.ts are null; the storage holds what   *)
(* the anonymous session left: the cashflow key, and the pending-import    *)
(* flag when the user chose to save to the account.  part_001 keeps the    *)
(* flag in a state of the component and waits for the refetch; part_002    *)
(* reads the flag in an effect without dependencies.  An effect runs once  *)
(* after the render that mounts the component and once after each render   *)
(* in which one of its dependencies changed, as the production build of    *)
(* React runs it; the second run of the mount effects that StrictMode adds *)
(* in a development build is left out.  The query of the cashflows starts  *)
(* at the mount and has no data before it settles, and its response comes  *)
(* after the effects of the render that started it.                        *)
(***************************************************************************)
AuthVariants == {"part_001", "part_002"}

\* The cashflows an anonymous session can leave under the key.
RECURSIVE LeftCashflows(_)
LeftCashflows(n) ==
  IF n = 0 THEN {EmptyCashflow}
  ELSE LeftCashflows(n - 1) \cup
       {addLocalPlan(c, Len(c.plans) + 1,
                     [category_id |-> cat, expected_amount |-> 1,
                      frequency |-> "monthly", start_month |-> MonthKey(2025, 12),
                      end_month |-> NoMonth]) :
          c \in {d \in LeftCashflows(n - 1) : Len(d.plans) = n - 1},
          cat \in {StoreCategories[i].id : i \in 1..Len(StoreCategories)}}

\* hasPendingImport
hasPendingImport(ls) == ls.pending

\* setPendingImport
setPendingImport(ls, pending) == [ls EXCEPT !.pending = pending]

\* Variant: the flag is not tested.
importDueUnflagged(pending, isPending) == ~isPending

\* The test of the effect, on the flag it reads and the isPending of the
\* mutation.
importDue(pending, isPending) == pending /\ ~isPending

\* The flag the effect tests: the state of the component, or the storage.
effectFlag(a, ls) ==
  IF a.variant = "part_001" THEN a.pendingImport ELSE hasPendingImport(ls)

\* The render returns the App and not the loading screen.
showsApp(a) ==
  /\ a.phase = "mounted"
  /\ ~(a.isLoading \/ a.mutation = "pending"
       \/ (a.variant = "part_001" /\ a.pendingImport))

InitAuth ==
  /\ now = MountClock
  /\ startMonth \in StartMonths
  /\ count = 1
  /\ monthIds = generateMonthRange(startMonth, count, now)
  /\ plans = <<>>
  /\ entries = <<>>
  /\ startingBalance = 0
  /\ result = NoResult
  /\ prev = NoResult
  /\ calls = <<>>
  /\ query = NoQuery
  /\ StoreIdle
  /\ localStorage \in [cashflow : {NullItem} \cup {stringify(c) : c \in LeftCashflows(MaxPlans)},
                       pending : BOOLEAN]
  /\ cachedRawJson = NullItem
  /\ cachedCashflow = NullItem
  /\ auth \in [phase : {"start"}, variant : AuthVariants]

\* The first render of AuthenticatedApp: useCashflows starts its fetch,
\* useState reads the flag, and the effect is scheduled.
MountAuthenticatedApp ==
  /\ auth.phase = "start"
  /\ auth' = [phase |-> "mounted", variant |-> auth.variant,
              pendingImport |-> IF auth.variant = "part_001"
                                THEN hasPendingImport(localStorage) ELSE FALSE,
              isLoading |-> TRUE, fetching |-> TRUE, mutation |-> "idle",
              awaiting |-> FALSE, effectDue |-> TRUE, started |-> 0]
  /\ UNCHANGED <<now, startMonth, count, monthIds, plans, entries, startingBalance,
                 result, prev, calls, query, storeVars, localStorage, cachedRawJson,
                 cachedCashflow>>

\* The effect: it starts the import of the local cashflow, or clears the
\* flag when there is none.
ImportEffect ==
  /\ auth.phase = "mounted"
  /\ auth.effectDue
  /\ LET got == getLocalCashflow(localStorage, cachedRawJson, cachedCashflow)
     IN  IF ~importDue(effectFlag(auth, localStorage), auth.mutation = "pending")
         THEN /\ auth' = [auth EXCEPT !.effectDue = FALSE]
              /\ UNCHANGED <<localStorage, cachedRawJson, cachedCashflow>>
         ELSE IF got.value # NullItem
         THEN /\ auth' = [auth EXCEPT !.effectDue = FALSE, !.mutation = "pending",
                                      !.started = @ + 1]
              /\ cachedRawJson' = got.cachedRawJson
              /\ cachedCashflow' = got.cachedCashflow
              /\ UNCHANGED localStorage
         ELSE /\ localStorage' = setPendingImport(localStorage, FALSE)
              /\ auth' = [auth EXCEPT !.pendingImport = FALSE,
                                      !.effectDue = (auth.variant = "part_001")]
              /\ cachedRawJson' = got.cachedRawJson
              /\ cachedCashflow' = got.cachedCashflow
  /\ UNCHANGED <<now, startMonth, count, monthIds, plans, entries, startingBalance,
                 result, prev, calls, query, storeVars>>

\* onSuccess of the hook and of the call: the cashflows are invalidated, the
\* local cashflow and the flag are cleared, and the refetch is awaited
\* (part_001) or left running (part_002).
ImportSucceeds ==
  /\ auth.phase = "mounted"
  /\ auth.mutation = "pending"
  /\ LET cleared == clearLocalCashflow(localStorage)
     IN  /\ localStorage' = setPendingImport(cleared.localStorage, FALSE)
         /\ cachedRawJson' = cleared.cachedRawJson
         /\ cachedCashflow' = cleared.cachedCashflow
  /\ auth' = [auth EXCEPT !.mutation = "success", !.fetching = TRUE,
                          !.awaiting = (auth.variant = "part_001")]
  /\ UNCHANGED <<now, startMonth, count, monthIds, plans, entries, startingBalance,
                 result, prev, calls, query, storeVars>>

\* onError of the call: the flag is cleared and the local cashflow is kept.
ImportFails ==
  /\ auth.phase = "mounted"
  /\ auth.mutation = "pending"
  /\ localStorage' = setPendingImport(localStorage, FALSE)
  /\ auth' = [auth EXCEPT !.mutation = "error",
                          !.fetching = (auth.variant = "part_001" \/ @),
                          !.awaiting = (auth.variant = "part_001")]
  /\ UNCHANGED <<now, startMonth, count, monthIds, plans, entries, startingBalance,
                 result, prev, calls, query, storeVars, cachedRawJson, cachedCashflow>>

\* The fetch of the cashflows settles: isLoading ends, and the callback that
\* awaits the refetch sets the state of the component, which runs the effect
\* again.
CashflowsSettled ==
  /\ auth.phase = "mounted"
  /\ auth.fetching
  /\ ~auth.effectDue
  /\ auth' = [auth EXCEPT !.fetching = FALSE, !.isLoading = FALSE,
                          !.awaiting = FALSE,
                          !.pendingImport = IF auth.awaiting THEN FALSE ELSE @,
                          !.effectDue = auth.awaiting /\ auth.pendingImport]
  /\ UNCHANGED <<now, startMonth, count, monthIds, plans, entries, startingBalance,
                 result, prev, calls, query, storeVars, localStorage, cachedRawJson,
                 cachedCashflow>>

NextAuth ==
  \/ MountAuthenticatedApp
  \/ ImportEffect
  \/ ImportSucceeds
  \/ ImportFails
  \/ CashflowsSettled

SpecAuth == InitAuth /\ [][NextAuth]_vars

\* React runs a scheduled effect, and a request that was sent is answered or
\* fails.
SpecAuthLive ==
  /\ SpecAuth
  /\ WF_vars(MountAuthenticatedApp)
  /\ WF_vars(ImportEffect)
  /\ WF_vars(ImportSucceeds \/ ImportFails)
  /\ WF_vars(CashflowsSettled)

(***************************************************************************)
(* Plan creations, plan updates and drag-and-drop moves over a window of   *)
(* several months.                                                         *)
(***************************************************************************)
InitDates ==
  /\ now = MountClock
  /\ startMonth \in StartMonths
  /\ count = MaxCount
  /\ monthIds = generateMonthRange(startMonth, count, now)
  /\ plans = <<>>
  /\ entries = <<>>
  /\ startingBalance = 0
  /\ result = NoResult
  /\ prev = NoResult
  /\ calls = <<>>
  /\ query = NoQuery
  /\ StoreIdle
  /\ SessionIdle

NextDates ==
  AddLocalPlan \/ SelectPlan \/ UpdateLocalPlan \/ UpdatePlanEndMonth \/ HandleDragEnd

SpecDates == InitDates /\ [][NextDates]_vars

(***************************************************************************)
(* Properties.                                                             *)
(***************************************************************************)
Ok == result.status = "ok"
Called(fn) == result.fn = fn /\ Ok
MonthIndexes == 1..Len(result.months)
ItemsOf(k) == result.months[k].items
PlanIds == {plans[i].id : i \in 1..Len(plans)}

\* The entries recorded against plan p in month m.
FulfillingEntries(p, m) ==
  {i \in 1..Len(entries) : entries[i].plan_id = p.id /\ entries[i].month_year = m}

ExpectedItemsOf(p, k) ==
  {i \in 1..Len(ItemsOf(k)) : ItemsOf(k)[i].type = "expected" /\ ItemsOf(k)[i].plan.id = p.id}

RealizedItemsOfPlan(p, k) ==
  {i \in 1..Len(ItemsOf(k)) : ItemsOf(k)[i].type = "entry" /\ ItemsOf(k)[i].entry.plan_id = p.id}

RealizedItemsOfEntry(e, k) ==
  {i \in 1..Len(ItemsOf(k)) : ItemsOf(k)[i].type = "entry" /\ ItemsOf(k)[i].entry.id = e.id}

\* The occurrences of a plan in a month, by frequency.
OccurrencesPerMonth(frequency) ==
  IF frequency = "weekly" THEN 4 ELSE IF frequency = "biweekly" THEN 2 ELSE 1

ItemIsExpense(item) ==
  IF item.type = "entry" THEN item.entry.plan.category.type = "expense"
  ELSE item.plan.category.type = "expense"

ItemDelta(item) ==
  LET amount == IF item.type = "entry" THEN item.entry.amount ELSE item.plan.expected_amount
  IN  IF ItemIsExpense(item) THEN -amount ELSE amount

RECURSIVE SumExpectedBalance(_, _)
SumExpectedBalance(months, k) ==
  IF k = 0 THEN 0 ELSE SumExpectedBalance(months, k - 1) + months[k].expectedBalance

\* C1: cumulativeExpected of month k is startingBalance plus the sum of
\* expectedBalance over the months up to k, and there is one summary per key.
Conservation ==
  (Ok /\ result.fn \in {"calculateBalances", "libCalculateBalances"}) =>
    /\ Len(result.months) = Len(monthIds)
    /\ \A k \in MonthIndexes :
         result.months[k].cumulativeExpected
           = startingBalance + SumExpectedBalance(result.months, k)

ConservationWitness ==
  /\ Called("calculateBalances")
  /\ Len(result.months) >= 2
  /\ startingBalance # 0
  /\ \A k \in MonthIndexes : result.months[k].expectedBalance # 0

\* C2: a plan with exactly one fulfilling entry in a month has that entry as
\* its one realized item there, and the entry takes the place of one expected
\* occurrence: a plan of one occurrence per month has no expected item left.
EntryPlanDedup ==
  Ok =>
    \A k \in MonthIndexes : \A pi \in 1..Len(plans) :
      LET p == plans[pi]
          f == FulfillingEntries(p, monthIds[k])
      IN  Cardinality(f) = 1 =>
            /\ \A i \in f : Cardinality(RealizedItemsOfEntry(entries[i], k)) = 1
            /\ Cardinality(RealizedItemsOfPlan(p, k)) = 1
            /\ Cardinality(ExpectedItemsOf(p, k)) + 1 <= OccurrencesPerMonth(p.frequency)

EntryPlanDedupWitness ==
  /\ Called("calculateBalances")
  /\ \E k \in MonthIndexes : \E pi \in 1..Len(plans) :
       /\ plans[pi].frequency = "monthly"
       /\ isPlanActiveInMonth(plans[pi], monthIds[k])
       /\ Cardinality(FulfillingEntries(plans[pi], monthIds[k])) = 1
       /\ Cardinality(ExpectedItemsOf(plans[pi], k)) = 0

\* C3: a one-time plan is active in no month but its start_month, whatever
\* its end_month, and has an expected item in no other month.
OneTimeExclusive ==
  \A pi \in 1..Len(plans) :
    LET p == plans[pi]
    IN  p.frequency = "one-time" =>
          /\ \A m \in PlanMonths \cup {monthIds[k] : k \in 1..Len(monthIds)} :
               /\ isPlanActiveInMonth(p, m) => m = p.start_month
               /\ localPlanInMonth(p, m) => m = p.start_month
          /\ Ok => \A k \in MonthIndexes :
                     monthIds[k] # p.start_month => ExpectedItemsOf(p, k) = {}

OneTimeExclusiveWitness ==
  /\ Called("calculateBalances")
  /\ \E pi \in 1..Len(plans) : \E k1, k2 \in MonthIndexes :
       LET p == plans[pi]
       IN  /\ p.frequency = "one-time"
           /\ StrLess(p.start_month, p.end_month)
           /\ monthIds[k1] = p.start_month
           /\ monthIds[k2] = p.end_month
           /\ Cardinality(ExpectedItemsOf(p, k1)) = 1
           /\ ExpectedItemsOf(p, k2) = {}

\* The running balance of month k after its item i, seeded from the month
\* before (startingBalance for the first month).
RECURSIVE SumDeltas(_, _)
SumDeltas(items, i) ==
  IF i = 0 THEN 0 ELSE SumDeltas(items, i - 1) + ItemDelta(items[i])

RunningAfter(k, i) ==
  (IF k = 1 THEN startingBalance ELSE result.months[k - 1].cumulativeExpected)
  + SumDeltas(ItemsOf(k), i)

\* Starting balance 100, one month, one expected expense of 500, no income.
DebtScenario ==
  LET key == MonthKey(2025, 3)
      rent == [id |-> 1, category |-> [type |-> "expense"], expected_amount |-> 500,
               frequency |-> "monthly", start_month |-> key, end_month |-> NoMonth,
               status |-> "active"]
      r == calculateBalances(<<key>>, <<rent>>, <<>>, 100, MountClock)
  IN  /\ r.status = "ok"
      /\ Len(r.months) = 1
      /\ Len(r.months[1].items) = 1
      /\ r.months[1].items[1].type = "expected"
      /\ r.months[1].items[1].wouldCauseDebt
      /\ r.months[1].expectedBalance = -500

\* C4: an item is flagged wouldCauseDebt exactly when it is an expected
\* expense and the running balance of its month after it is negative; realized
\* and income items are never flagged.
DebtFlagExact ==
  /\ Called("calculateBalances") =>
       \A k \in MonthIndexes : \A i \in 1..Len(ItemsOf(k)) :
         ItemsOf(k)[i].wouldCauseDebt
           = (/\ ItemsOf(k)[i].type = "expected"
              /\ ItemIsExpense(ItemsOf(k)[i])
              /\ RunningAfter(k, i) < 0)
  /\ DebtScenario

DebtFlagExactWitness ==
  /\ Called("calculateBalances")
  /\ \E k \in MonthIndexes : \E i \in 1..Len(ItemsOf(k)) : ItemsOf(k)[i].wouldCauseDebt
  /\ \E k \in MonthIndexes : \E j \in 1..Len(ItemsOf(k)) :
       /\ ItemsOf(k)[j].type = "entry" /\ ItemIsExpense(ItemsOf(k)[j])
       /\ RunningAfter(k, j) < 0 /\ ~ItemsOf(k)[j].wouldCauseDebt
  /\ \E k \in MonthIndexes : \E h \in 1..Len(ItemsOf(k)) :
       /\ ItemsOf(k)[h].type = "expected" /\ ItemIsExpense(ItemsOf(k)[h])
       /\ RunningAfter(k, h) = 0 /\ ~ItemsOf(k)[h].wouldCauseDebt

\* cumulativeExpected -100, 50, 300: 200 is affordable in the third month,
\* 1000 in none.
AffordScenario ==
  LET a == MonthKey(2025, 1)
      b == MonthKey(2025, 2)
      c == MonthKey(2025, 3)
      summaries == <<Summary(a, -100), Summary(b, 50), Summary(c, 300)>>
  IN  /\ findEarliestAffordableMonth(200, summaries) = c
      /\ findEarliestAffordableMonth(1000, summaries) = Null

IsOrphan(e) == e.plan_id \notin PlanIds
HasIntegrityError ==
  \/ \E i \in 1..Len(entries) : IsOrphan(entries[i])
  \/ \E i \in 1..Len(plans) : plans[i].category = Undefined

UnreadableInMonth(m) ==
  \/ \E i \in 1..Len(entries) :
       /\ entries[i].month_year = m
       /\ (entries[i].plan = Undefined \/ entries[i].plan.category = Undefined)
  \/ \E i \in 1..Len(plans) :
       /\ plans[i].category = Undefined
       /\ isPlanActiveInMonth(plans[i], m)
       /\ Cardinality(FulfillingEntries(plans[i], m)) < OccurrencesPerMonth(plans[i].frequency)

OneExpectedPerPlan ==
  Called("calculateBalances") =>
    \A k \in MonthIndexes : \A pi \in 1..Len(plans) :
      (isPlanActiveInMonth(plans[pi], monthIds[k])
       /\ FulfillingEntries(plans[pi], monthIds[k]) = {})
        => Cardinality(ExpectedItemsOf(plans[pi], k)) = 1

\* C7 as amended: calculateBalances emits 4 expected items for a weekly plan,
\* 2 for a biweekly one and 1 otherwise; the builder of src/lib/calculations.ts
\* 2 for a biweekly plan and 1 otherwise; calculateLocalBalances 1 for every
\* plan its filter selects.
ExpectedPerFrequency ==
  Ok =>
    \A k \in MonthIndexes : \A pi \in 1..Len(plans) :
      LET p == plans[pi]
          n == Cardinality(ExpectedItemsOf(p, k))
      IN  FulfillingEntries(p, monthIds[k]) = {} =>
            /\ (result.fn = "calculateBalances" /\ isPlanActiveInMonth(p, monthIds[k]))
                 => n = OccurrencesPerMonth(p.frequency)
            /\ (result.fn = "libCalculateBalances" /\ isPlanActiveInMonth(p, monthIds[k]))
                 => n = (IF p.frequency = "biweekly" THEN 2 ELSE 1)
            /\ (result.fn = "calculateLocalBalances" /\ localPlanInMonth(p, monthIds[k]))
                 => n = 1

ExpectedPerFrequencyWitness ==
  /\ Called("calculateBalances")
  /\ \E k \in MonthIndexes : \E pi \in 1..Len(plans) :
       /\ plans[pi].frequency = "weekly"
       /\ FulfillingEntries(plans[pi], monthIds[k]) = {}
       /\ Cardinality(ExpectedItemsOf(plans[pi], k)) = 4

\* A well-formed key and the number of its month.
WellFormedKey(s) ==
  /\ Len(s) = 6
  /\ \A i \in 1..6 : s[i] \in 0..9
  /\ Month(s) \in 1..12
MonthNumber(s) == Year(s) * 12 + Month(s)

RangeScenario ==
  generateMonthRange(<<2, 0, 2, 5, 1, 1>>, 4, MountClock)
    = << <<2, 0, 2, 5, 1, 1>>, <<2, 0, 2, 5, 1, 2>>, <<2, 0, 2, 6, 0, 1>>, <<2, 0, 2, 6, 0, 2>> >>

\* C8: generateMonthRange returns count keys, the first the start key, each
\* next one the calendar month after the one before.
RangeConsecutive ==
  /\ monthIds # <<>> =>
       /\ Len(monthIds) = count
       /\ monthIds[1] = startMonth
       /\ \A i \in 1..Len(monthIds) : WellFormedKey(monthIds[i])
       /\ \A i \in 1..(Len(monthIds) - 1) :
            MonthNumber(monthIds[i + 1]) = MonthNumber(monthIds[i]) + 1
  /\ RangeScenario

RangeConsecutiveWitness ==
  /\ Len(monthIds) >= 4
  /\ Month(monthIds[1]) = 11
  /\ Year(monthIds[4]) = Year(monthIds[1]) + 1
  /\ now # MountClock

AllItemsIncome ==
  \A k \in MonthIndexes : \A i \in 1..Len(ItemsOf(k)) : ~ItemIsExpense(ItemsOf(k)[i])

\* C9: when every item of every month is an income item, cumulativeExpected
\* does not decrease along the summaries.
IncomeMonotone ==
  (Called("calculateBalances") /\ AllItemsIncome) =>
    \A k \in MonthIndexes :
      k + 1 \in MonthIndexes =>
        result.months[k].cumulativeExpected <= result.months[k + 1].cumulativeExpected

IncomeMonotoneWitness ==
  /\ Called("calculateBalances")
  /\ AllItemsIncome
  /\ Len(result.months) >= 2
  /\ \E i \in 1..Len(ItemsOf(2)) : ItemsOf(2)[i].type = "entry"
  /\ \E i \in 1..Len(ItemsOf(2)) : ItemsOf(2)[i].type = "expected"
  /\ result.months[1].cumulativeExpected < result.months[2].cumulativeExpected

\* C10: a further call of calculateBalances with the same inputs returns the
\* same summaries, whatever the clock reads.
Deterministic ==
  Len(calls) >= 2 => result = prev

DeterministicWitness ==
  /\ Len(calls) = 2
  /\ calls[1] # calls[2]
  /\ Ok
  /\ \E k \in MonthIndexes : ItemsOf(k) # <<>>

(***************************************************************************)
(* Properties of the local store.                                          *)
(***************************************************************************)
StoredPlan(c, id) == c.plans[findIndex(c.plans, id)]
PlansOfId(c, id) == {i \in 1..Len(c.plans) : c.plans[i].id = id}
EntriesOfPlan(c, id) == {i \in 1..Len(c.entries) : c.entries[i].plan_id = id}

\* C11: a step of the store turns a stored plan from active to completed
\* exactly when it is addLocalEntry against that plan and the plan is one-time;
\* a plan is stored as active, and a completed plan never becomes active.
OneTimeLifecycle ==
  [][/\ \A i \in 1..Len(cashflow.plans) :
          LET p == cashflow.plans[i]
          IN  PlansOfId(cashflow', p.id) # {} =>
                /\ (p.status = "active" /\ StoredPlan(cashflow', p.id).status = "completed")
                     <=> (/\ op'.name = "addLocalEntry"
                          /\ Len(cashflow'.entries) = Len(cashflow.entries) + 1
                          /\ op'.id = p.id
                          /\ p.frequency = "one-time"
                          /\ p.status = "active")
                /\ p.status = "completed" => StoredPlan(cashflow', p.id).status = "completed"
     /\ \A j \in 1..Len(cashflow'.plans) :
          PlansOfId(cashflow, cashflow'.plans[j].id) = {}
            => cashflow'.plans[j].status = "active"]_vars

OneTimeLifecycleWitness ==
  /\ op.name = "addLocalEntry"
  /\ \E i, j \in 1..Len(cashflow.plans) :
       /\ cashflow.plans[i].id = op.id
       /\ cashflow.plans[i].frequency = "one-time"
       /\ cashflow.plans[i].status = "completed"
       /\ cashflow.plans[j].frequency # "one-time"
       /\ cashflow.plans[j].status = "active"
       /\ EntriesOfPlan(cashflow, cashflow.plans[j].id) # {}

\* C12: a step deleteLocalPlan(id) leaves no plan with that id and no entry of
\* that plan, and keeps every other plan and every entry of another plan as it
\* was, in the same order, adding nothing.
CascadeDelete ==
  [][(op'.name = "deleteLocalPlan" /\ PlansOfId(cashflow, op'.id) # {}) =>
       LET id == op'.id
           keptPlans == {i \in 1..Len(cashflow.plans) : cashflow.plans[i].id # id}
           keptEntries == {i \in 1..Len(cashflow.entries) : cashflow.entries[i].plan_id # id}
       IN  /\ PlansOfId(cashflow', id) = {}
           /\ EntriesOfPlan(cashflow', id) = {}
           /\ Len(cashflow'.plans) = Cardinality(keptPlans)
           /\ Len(cashflow'.entries) = Cardinality(keptEntries)
           /\ \A i \in keptPlans :
                cashflow'.plans[Cardinality({k \in keptPlans : k <= i})] = cashflow.plans[i]
           /\ \A i \in keptEntries :
                cashflow'.entries[Cardinality({k \in keptEntries : k <= i})]
                  = cashflow.entries[i]]_vars

CascadeDeleteWitness ==
  /\ op.name = "deleteLocalPlan"
  /\ PlansOfId(cashflow, op.id) = {}
  /\ Len(cashflow.plans) = 1
  /\ Len(cashflow.entries) = 1
  /\ op.had = 2
  /\ cashflow.entries[1].plan_id = cashflow.plans[1].id

\* C13: every stored entry's plan_id is the id of exactly one stored plan.
NoFreestandingEntry ==
  \A i \in 1..Len(cashflow.entries) :
    Cardinality(PlansOfId(cashflow, cashflow.entries[i].plan_id)) = 1

\* C14: every stored plan with an end_month has end_month >= start_month.
PlanDatesOrdered ==
  \A i \in 1..Len(cashflow.plans) :
    cashflow.plans[i].end_month # NoMonth
      => ~StrLess(cashflow.plans[i].end_month, cashflow.plans[i].start_month)

(***************************************************************************)
(* Properties of the builder and the projection, continued.                *)
(***************************************************************************)
\* The positions of the returned items.
ItemPositions ==
  UNION {{<<k, i>> : i \in 1..Len(ItemsOf(k))} : k \in MonthIndexes}

\* Every returned item is an object the call created, at one position only,
\* and wraps an entry or a plan of the input lists as it was given.
FreshItems ==
  Called("calculateBalances") =>
    /\ \A x \in ItemPositions :
         LET item == ItemsOf(x[1])[x[2]]
         IN  /\ item.ref # NoRef
             /\ item.type = "entry" => \E e \in 1..Len(entries) : item.entry = entries[e]
             /\ item.type = "expected" => \E q \in 1..Len(plans) : item.plan = plans[q]
    /\ \A x, y \in ItemPositions :
         x # y => ItemsOf(x[1])[x[2]].ref # ItemsOf(y[1])[y[2]].ref

ProbeMonths ==
  PlanMonths \cup {MonthKey(2025, 11), MonthKey(2026, 2)}
          \cup {monthIds[k] : k \in 1..Len(monthIds)}

\* C16: a completed plan is active in no month and has no expected item in any
\* month; the entries recorded against it are still emitted, each once, in
\* their month.
CompletedNeverActive ==
  \A q \in 1..Len(plans) :
    plans[q].status = "completed" =>
      /\ \A m \in ProbeMonths :
           ~isPlanActiveInMonth(plans[q], m) /\ ~localPlanInMonth(plans[q], m)
      /\ Ok => \A k \in MonthIndexes :
                 /\ ExpectedItemsOf(plans[q], k) = {}
                 /\ \A e \in FulfillingEntries(plans[q], monthIds[k]) :
                      Cardinality(RealizedItemsOfEntry(entries[e], k)) = 1

CompletedNeverActiveWitness ==
  /\ Called("calculateBalances")
  /\ \E q \in 1..Len(plans) : \E k \in MonthIndexes :
       /\ plans[q].status = "completed"
       /\ plans[q].frequency = "monthly"
       /\ ~StrLess(monthIds[k], plans[q].start_month)
       /\ plans[q].end_month = NoMonth
       /\ FulfillingEntries(plans[q], monthIds[k]) # {}
       /\ \E k2 \in MonthIndexes :
            /\ ~StrLess(monthIds[k2], plans[q].start_month)
            /\ FulfillingEntries(plans[q], monthIds[k2]) = {}
            /\ ItemsOf(k2) = <<>>

\* C17: an active plan of a recurring frequency is active in month m exactly
\* when m is not before start_month and, with an end_month, not after it; the
\* builders emit its expected items in those months only.
ActivationRange ==
  \A q \in 1..Len(plans) :
    LET p == plans[q]
        InRange(m) == /\ MonthNumber(p.start_month) <= MonthNumber(m)
                      /\ p.end_month = NoMonth \/ MonthNumber(m) <= MonthNumber(p.end_month)
    IN  (p.status = "active" /\ p.frequency \in {"weekly", "biweekly", "monthly"}) =>
          /\ \A m \in ProbeMonths : isPlanActiveInMonth(p, m) <=> InRange(m)
          /\ (Ok /\ result.fn \in {"calculateBalances", "libCalculateBalances"}) =>
               \A k \in MonthIndexes :
                 FulfillingEntries(p, monthIds[k]) = {} =>
                   (ExpectedItemsOf(p, k) # {} <=> InRange(monthIds[k]))

ActivationRangeWitness ==
  /\ Called("calculateBalances")
  /\ Len(result.months) >= 2
  /\ \E q \in 1..Len(plans) :
       /\ plans[q].status = "active"
       /\ plans[q].frequency = "weekly"
       /\ plans[q].start_month = monthIds[2]
       /\ plans[q].end_month = monthIds[2]
       /\ ExpectedItemsOf(plans[q], 1) = {}
       /\ ExpectedItemsOf(plans[q], 2) # {}

\* C18: expectedBalance of a month is the sum over its items of +amount for an
\* income item and -amount for an expense item, the amount of the entry for a
\* realized item and the expected amount of the plan for an expected one.
ExpectedBalanceSum ==
  (Ok /\ result.fn \in {"calculateBalances", "libCalculateBalances"}) =>
    \A k \in MonthIndexes :
      result.months[k].expectedBalance = SumDeltas(ItemsOf(k), Len(ItemsOf(k)))

ExpectedBalanceSumWitness ==
  /\ Called("calculateBalances")
  /\ \E k \in MonthIndexes : \E i, j \in 1..Len(ItemsOf(k)) :
       /\ ItemsOf(k)[i].type = "entry" /\ ~ItemIsExpense(ItemsOf(k)[i])
       /\ ItemsOf(k)[j].type = "expected" /\ ItemIsExpense(ItemsOf(k)[j])
       /\ result.months[k].expectedBalance
            = ItemsOf(k)[i].entry.amount - ItemsOf(k)[j].plan.expected_amount

\* The signed amount of the entries recorded in month m, from the input list.
RECURSIVE SumEntriesOfMonth(_, _)
SumEntriesOfMonth(i, m) ==
  IF i = 0 THEN 0
  ELSE SumEntriesOfMonth(i - 1, m)
       + (IF entries[i].month_year # m THEN 0
          ELSE IF entries[i].plan.category.type = "income" THEN entries[i].amount
          ELSE -entries[i].amount)

\* The signed amount of the realized items among the first i items.
RECURSIVE SumRealized(_, _)
SumRealized(items, i) ==
  IF i = 0 THEN 0
  ELSE SumRealized(items, i - 1)
       + (IF items[i].type = "entry" THEN ItemDelta(items[i]) ELSE 0)

\* C19: actualBalance of a month is the signed sum of entry.amount over its
\* realized items; it is the signed sum of the entries recorded in that month,
\* whatever the expected_amount, status and date range of the plans.
ActualBalanceSum ==
  (Ok /\ result.fn \in {"calculateBalances", "libCalculateBalances"}) =>
    \A k \in MonthIndexes :
      /\ result.months[k].actualBalance = SumRealized(ItemsOf(k), Len(ItemsOf(k)))
      /\ result.months[k].actualBalance = SumEntriesOfMonth(Len(entries), monthIds[k])

ActualBalanceSumWitness ==
  /\ Called("calculateBalances")
  /\ \E k \in MonthIndexes :
       /\ \E i \in 1..Len(ItemsOf(k)) : ItemsOf(k)[i].type = "expected"
       /\ \E i \in 1..Len(ItemsOf(k)) : ItemsOf(k)[i].type = "entry"
       /\ result.months[k].actualBalance # 0
       /\ result.months[k].actualBalance # result.months[k].expectedBalance

\* C20: every entry is wrapped by exactly one realized item of its month and by
\* none of another month, whether or not its plan is active there and however
\* many entries the plan has in that month.
EntryEmittedOnce ==
  (Ok /\ result.fn \in {"calculateBalances", "libCalculateBalances"}) =>
    \A e \in 1..Len(entries) : \A k \in MonthIndexes :
      LET wrapping == {i \in 1..Len(ItemsOf(k)) :
                         ItemsOf(k)[i].type = "entry" /\ ItemsOf(k)[i].entry = entries[e]}
      IN  Cardinality(wrapping) = (IF entries[e].month_year = monthIds[k] THEN 1 ELSE 0)

EntryEmittedOnceWitness ==
  /\ Called("calculateBalances")
  /\ \E q \in 1..Len(plans) : \E k \in MonthIndexes :
       /\ ~isPlanActiveInMonth(plans[q], monthIds[k])
       /\ Cardinality(FulfillingEntries(plans[q], monthIds[k])) = 2
       /\ Cardinality(RealizedItemsOfPlan(plans[q], k)) = 2

\* The expected items a builder emits for a plan that is active in a month and
\* has no entry there.
OccurrenceCount(fn, frequency) ==
  IF fn = "calculateBalances" THEN OccurrencesPerMonth(frequency)
  ELSE IF frequency = "biweekly" THEN 2 ELSE 1

\* C21: a plan active in month m has as many expected items in m as its
\* occurrence count exceeds the number of its fulfilling entries in m, none
\* when the entries reach the count; a plan not active in m has none.
MissingOccurrences ==
  (Ok /\ result.fn \in {"calculateBalances", "libCalculateBalances"}) =>
    \A k \in MonthIndexes : \A q \in 1..Len(plans) :
      LET p == plans[q]
          fulfilled == Cardinality(FulfillingEntries(p, monthIds[k]))
          occurrences == OccurrenceCount(result.fn, p.frequency)
      IN  Cardinality(ExpectedItemsOf(p, k))
            = (IF isPlanActiveInMonth(p, monthIds[k]) /\ fulfilled < occurrences
               THEN occurrences - fulfilled ELSE 0)

\* What the order of a list is stated on: which entry or plan an item wraps and
\* the group of its category.
OrderKey(type, id, category) ==
  [type |-> type, id |-> id, expense |-> category.type = "expense"]

ItemOrderKeys(items) ==
  [i \in 1..Len(items) |->
     OrderKey(items[i].type,
              IF items[i].type = "entry" THEN items[i].entry.id ELSE items[i].plan.id,
              IF items[i].type = "entry" THEN items[i].entry.plan.category
              ELSE items[i].plan.category)]

EntryOrderKeys(es) ==
  [i \in 1..Len(es) |-> OrderKey("entry", es[i].id, es[i].plan.category)]

\* The emission order of month k over the first q plans: each plan's entries of
\* the month in input order, then its expected items.
RECURSIVE PlansEmission(_, _)
PlansEmission(q, k) ==
  IF q = 0 THEN <<>>
  ELSE LET p == plans[q]
       IN  PlansEmission(q - 1, k)
           \o EntryOrderKeys(SelectSeq(entries, LAMBDA e :
                e.plan_id = p.id /\ e.month_year = monthIds[k]))
           \o [i \in 1..Cardinality(ExpectedItemsOf(p, k)) |->
                 OrderKey("expected", p.id, p.category)]

\* ... then the entries of the month that no listed plan claimed, in input order.
EmissionOrder(k) ==
  PlansEmission(Len(plans), k)
  \o EntryOrderKeys(SelectSeq(entries, LAMBDA e :
       e.plan_id \notin PlanIds /\ e.month_year = monthIds[k]))

\* C22: in every month's list the income items precede the expense items, and
\* each of the two groups is in emission order: plans in input order, each
\* plan's entries then its expected items, then the remaining entries.
IncomeFirstStable ==
  (Ok /\ result.fn \in {"calculateBalances", "libCalculateBalances"}) =>
    \A k \in MonthIndexes :
      ItemOrderKeys(ItemsOf(k))
        = SelectSeq(EmissionOrder(k), LAMBDA x : ~x.expense)
          \o SelectSeq(EmissionOrder(k), LAMBDA x : x.expense)

RECURSIVE SumActualBalance(_, _)
SumActualBalance(months, k) ==
  IF k = 0 THEN 0 ELSE SumActualBalance(months, k - 1) + months[k].actualBalance

\* C23: cumulativeActual of month k is startingBalance, the balance
\* cumulativeExpected starts from as well, plus the sum of actualBalance over
\* the months up to k.
ActualConservation ==
  (Ok /\ result.fn \in {"calculateBalances", "libCalculateBalances",
                        "calculateLocalBalances"}) =>
    \A k \in MonthIndexes :
      /\ result.months[k].cumulativeActual
           = startingBalance + SumActualBalance(result.months, k)
      /\ result.months[k].cumulativeActual - SumActualBalance(result.months, k)
           = result.months[k].cumulativeExpected - SumExpectedBalance(result.months, k)

ActualConservationWitness ==
  /\ Called("calculateBalances")
  /\ Len(result.months) >= 2
  /\ startingBalance # 0
  /\ \A k \in MonthIndexes :
       /\ result.months[k].actualBalance # 0
       /\ result.months[k].actualBalance # result.months[k].expectedBalance
  /\ result.months[2].cumulativeActual # result.months[2].cumulativeExpected

(***************************************************************************)
(* Properties of the local store, continued.                               *)
(***************************************************************************)
\* C24: a step deleteLocalEntry(id) on a stored entry leaves the list of plans
\* as it was, every field and the status included, removes the entry of that
\* id and keeps the other entries as they were, in their order.
DeleteEntryFrame ==
  [][(op'.name = "deleteLocalEntry" /\ op'.id \in StoredEntryIds) =>
       LET kept == {i \in 1..Len(cashflow.entries) : cashflow.entries[i].id # op'.id}
       IN  /\ cashflow'.plans = cashflow.plans
           /\ \A i \in 1..Len(cashflow'.entries) : cashflow'.entries[i].id # op'.id
           /\ Len(cashflow'.entries) = Cardinality(kept)
           /\ Cardinality(kept) = Len(cashflow.entries) - 1
           /\ \A i \in kept :
                cashflow'.entries[Cardinality({k \in kept : k <= i})]
                  = cashflow.entries[i]]_vars

\* The sole entry of a completed one-time plan was deleted, another entry stays.
DeleteEntryFrameWitness ==
  /\ op.name = "deleteLocalEntry"
  /\ op.had = 2
  /\ Len(cashflow.entries) = 1
  /\ \E i \in 1..Len(cashflow.plans) :
       /\ cashflow.plans[i].frequency = "one-time"
       /\ cashflow.plans[i].status = "completed"
       /\ EntriesOfPlan(cashflow, cashflow.plans[i].id) = {}

\* The month before the one the store's session shows, that month and the
\* month after it.
ProbeWindow == generateMonthRange(MonthKey(2025, 11), 3, MountClock)

\* The projections of the stored cashflow: the one AnonymousApp shows and the
\* one of calculateBalances on the same plans and entries.
StoreProjections ==
  {calculateLocalBalances(ProbeWindow, apiPlans(cashflow), apiEntries(cashflow), 0),
   calculateBalances(ProbeWindow, apiPlans(cashflow), apiEntries(cashflow), 0, MountClock)}

\* The positions, in the summaries r, of the items of a type that plan id has.
ItemsOfPlanIn(r, id, type) ==
  UNION {{<<k, i>> : i \in {j \in 1..Len(r.months[k].items) :
                             LET item == r.months[k].items[j]
                             IN  /\ item.type = type
                                 /\ IF type = "entry" THEN item.entry.plan_id = id
                                    ELSE item.plan.id = id}} :
           k \in 1..Len(r.months)}

\* C27: a stored plan completed by addLocalEntry has no expected item in any
\* month of a projection of the store; while its entry is stored it has that
\* one realized item, in the month of the entry, and once the entry is deleted
\* it has no item at all.  A projection fails only over a stored entry without
\* stored plan.
CompletedPlanItems ==
  \A r \in StoreProjections :
    /\ r.status # "ok" => ~NoFreestandingEntry
    /\ r.status = "ok" =>
         \A q \in 1..Len(cashflow.plans) :
           LET p == cashflow.plans[q]
               stored == EntriesOfPlan(cashflow, p.id)
           IN  p.status = "completed" =>
                 /\ ItemsOfPlanIn(r, p.id, "expected") = {}
                 /\ Cardinality(ItemsOfPlanIn(r, p.id, "entry")) = Cardinality(stored)
                 /\ \A x \in ItemsOfPlanIn(r, p.id, "entry") :
                      LET item == r.months[x[1]].items[x[2]]
                      IN  /\ r.months[x[1]].id = item.entry.month_year
                          /\ \E e \in stored : cashflow.entries[e].id = item.entry.id

\* The entry of one completed one-time plan was deleted, that of another is
\* stored.
CompletedPlanItemsWitness ==
  /\ op.name = "deleteLocalEntry"
  /\ \A r \in StoreProjections : r.status = "ok"
  /\ \E a, b \in 1..Len(cashflow.plans) :
       /\ cashflow.plans[a].frequency = "one-time"
       /\ cashflow.plans[a].status = "completed"
       /\ EntriesOfPlan(cashflow, cashflow.plans[a].id) = {}
       /\ cashflow.plans[b].frequency = "one-time"
       /\ cashflow.plans[b].status = "completed"
       /\ Cardinality(EntriesOfPlan(cashflow, cashflow.plans[b].id)) = 1
       /\ \A r \in StoreProjections :
            Cardinality(ItemsOfPlanIn(r, cashflow.plans[b].id, "entry")) = 1

FlaggedItems(k) == {i \in 1..Len(ItemsOf(k)) : ItemsOf(k)[i].wouldCauseDebt}
ExpectedExpenses(k) ==
  {i \in 1..Len(ItemsOf(k)) : ItemsOf(k)[i].type = "expected" /\ ItemIsExpense(ItemsOf(k)[i])}

\* C26: amounts being non-negative, a month whose cumulativeExpected is not
\* negative has no flagged item, and in every month the expected expenses that
\* follow a flagged item are flagged.
NoFalseDebtWarning ==
  Called("calculateBalances") =>
    \A k \in MonthIndexes :
      /\ result.months[k].cumulativeExpected >= 0 => FlaggedItems(k) = {}
      /\ \A i \in FlaggedItems(k) : \A j \in ExpectedExpenses(k) :
           i < j => j \in FlaggedItems(k)

\* A month with expected expenses that would end below 0 without an income
\* entry emitted after them, and a month where flagged expenses follow one
\* another.
NoFalseDebtWarningWitness ==
  /\ Called("calculateBalances")
  /\ \E k \in MonthIndexes :
       /\ result.months[k].cumulativeExpected >= 0
       /\ FlaggedItems(k) = {}
       /\ ExpectedExpenses(k) # {}
       /\ \E i \in 1..Len(ItemsOf(k)) :
            /\ ItemsOf(k)[i].type = "entry"
            /\ ~ItemIsExpense(ItemsOf(k)[i])
            /\ result.months[k].cumulativeExpected - ItemDelta(ItemsOf(k)[i]) < 0
  /\ \E k \in MonthIndexes :
       /\ result.months[k].cumulativeExpected < 0
       /\ Cardinality(FlaggedItems(k)) >= 2

(***************************************************************************)
(* Properties of the projection over two windows.                          *)
(***************************************************************************)
\* C25: a successful call returns one summary per requested key, in the order
\* of the keys; the summaries of a window are the first summaries of a longer
\* window with the same start, plans, entries and starting balance: the items
\* with their flags and the four balance figures.
PrefixConsistent ==
  /\ Called("calculateBalances") =>
       /\ Len(result.months) = Len(monthIds)
       /\ \A k \in MonthIndexes : result.months[k].id = monthIds[k]
  /\ (Len(calls) >= 2 /\ prev.status = "ok") =>
       /\ Ok
       /\ Len(result.months) < Len(prev.months)
       /\ result.months = SubSeq(prev.months, 1, Len(result.months))

PrefixConsistentWitness ==
  /\ Len(calls) >= 2
  /\ prev.status = "ok"
  /\ Ok
  /\ Len(prev.months) = Len(result.months) + 1
  /\ \E i \in 1..Len(ItemsOf(1)) : ItemsOf(1)[i].wouldCauseDebt
  /\ \E i \in 1..Len(ItemsOf(1)) : ItemsOf(1)[i].type = "entry"
  /\ prev.months[Len(prev.months)].items # <<>>
  /\ prev.months[Len(prev.months)].cumulativeExpected
       # result.months[Len(result.months)].cumulativeExpected

(***************************************************************************)
(* The anonymous-mode projection against the core projection.              *)
(***************************************************************************)
\* The items of summary k of r that wrap entry id (type "entry") or plan id
\* (type "expected").
WrappingItems(r, k, type, id) ==
  {i \in 1..Len(r.months[k].items) :
     LET item == r.months[k].items[i]
     IN  /\ item.type = type
         /\ IF type = "entry" THEN item.entry.id = id ELSE item.plan.id = id}

\* C28: calculateLocalBalances returns, for the same month keys, plans, entries
\* and starting balance, the four balance figures of calculateBalances in
\* every month and the same expected and realized items, as often.
LocalAgreesWithCore ==
  result.fn = "calculateLocalBalances" =>
    LET core == calculateBalances(monthIds, plans, entries, startingBalance, now)
    IN  /\ core.status = result.status
        /\ Ok =>
             /\ Len(core.months) = Len(result.months)
             /\ \A k \in MonthIndexes :
                  /\ core.months[k].expectedBalance = result.months[k].expectedBalance
                  /\ core.months[k].actualBalance = result.months[k].actualBalance
                  /\ core.months[k].cumulativeExpected = result.months[k].cumulativeExpected
                  /\ core.months[k].cumulativeActual = result.months[k].cumulativeActual
                  /\ \A q \in 1..Len(plans) :
                       Cardinality(WrappingItems(core, k, "expected", plans[q].id))
                         = Cardinality(WrappingItems(result, k, "expected", plans[q].id))
                  /\ \A e \in 1..Len(entries) :
                       Cardinality(WrappingItems(core, k, "entry", entries[e].id))
                         = Cardinality(WrappingItems(result, k, "entry", entries[e].id))

(***************************************************************************)
(* Properties of the cache of the local store                              *)
(***************************************************************************)
\* C30: whatever was saved, cleared, added, updated, deleted or written from
\* outside, getLocalCashflow returns null when the key is absent and else a
\* value equal to the parse of the text stored under the key.
CacheCoherent ==
  LET got == getLocalCashflow(localStorage, cachedRawJson, cachedCashflow)
  IN  IF localStorage.cashflow = NullItem
      THEN got.status = "ok" /\ got.value = NullItem
      ELSE IF parseThrows(localStorage.cashflow)
      THEN got.status = "SyntaxError"
      ELSE got.status = "ok" /\ got.value = JSONparse(localStorage.cashflow)


(***************************************************************************)
(* Properties of the import after a login                                  *)
(***************************************************************************)
ImportPending == auth.phase = "mounted" /\ (localStorage.pending \/ auth.mutation = "pending")

====
